---- MODULE Spec2Model ----
(***************************************************************************)
(* EarthStudio: keyframe timeline, playback clock and video export.        *)
(*                                                                         *)
(* Numbers that are JavaScript doubles in the source are exact rationals   *)
(* here: a pair <<n, d>> with d > 0 in lowest terms.  Times are seconds.   *)
(***************************************************************************)
EXTENDS Integers, Sequences, FiniteSets, TLC

VARIABLES
    keyframes,        \* KeyframeManager.keyframes
    selectedKeyframe, \* KeyframeManager.selectedKeyframe
    draggedKeyframe,  \* TimelineEditor.draggedKeyframe
    created,          \* how many Keyframe objects have been constructed
    notified,         \* the calls the last handler made on the
                      \* KeyframeManager, each with the events it emitted
    isPlaying,        \* AnimationController.isPlaying
    currentTime,      \* AnimationController.currentTime
    duration,         \* AnimationController.duration
    fps,              \* AnimationController.fps
    frameInterval,    \* AnimationController.frameInterval, in milliseconds
    loop,             \* AnimationController.loop
    elapsed,          \* performance.now() - lastFrameTime when the last
                      \* animate() returned, in seconds
    finished,         \* 'finished' events emitted since play() was called
    wall,             \* wall-clock time animate() has covered since play()
    wide,             \* two calls of animate() since play() were more than
                      \* one frame interval apart
    animationFrameId, \* AnimationController.animationFrameId is not null
    scheduled,        \* how many requestAnimationFrame callbacks of animate()
                      \* are pending
    cameraControls,   \* enableRotate, enableZoom, enableTilt and enableLook
                      \* of the screenSpaceCameraController
    emitted,          \* the method of the clock called last and the events
                      \* the clock emitted in that step
    camera,           \* the renderer's camera: last pose pushed, and by whom
    applied,          \* the call of a function of Interpolation made last:
                      \* its name, its arguments and what it returned
    isExporting,      \* VideoExporter.isExporting
    exportProgress,   \* VideoExporter.exportProgress
    statusText,       \* #export-status text
    dialogShown,      \* #export-dialog displayed
    btnStartDisabled, \* #btn-start-export disabled
    btnServerDisabled,\* #btn-server-export disabled
    container,        \* viewer.container.style width/height
    exports,          \* the invocations of startExport / startServerExport
    returned          \* what the invocation that returned last did

vars == <<keyframes, selectedKeyframe, draggedKeyframe, created, notified, isPlaying, currentTime, duration, fps,
          frameInterval, loop, elapsed,
          finished, wall, wide, animationFrameId, scheduled, cameraControls,
          emitted, camera, applied,
          isExporting, exportProgress, statusText, dialogShown,
          btnStartDisabled, btnServerDisabled, container, exports,
          returned>>

timelineVars == <<keyframes, selectedKeyframe, draggedKeyframe, created,
                  notified>>
clockConfig == <<duration, fps, frameInterval, loop>>
timing == <<elapsed, finished, wall, wide>>
tickVars == <<timing, animationFrameId, scheduled, cameraControls, emitted>>
clockVars == <<isPlaying, currentTime, clockConfig, tickVars>>
uiVars == <<isExporting, exportProgress, statusText, dialogShown,
            btnStartDisabled, btnServerDisabled>>

----------------------------------------------------------------------------
(* Rational arithmetic                                                     *)

Abs(x) == IF x < 0 THEN -x ELSE x

RECURSIVE GCD(_, _)
GCD(a, b) == IF b = 0 THEN a ELSE GCD(b, a % b)

Rat(n, d) ==
    LET s == IF d < 0 THEN -1 ELSE 1
        g == GCD(Abs(n), Abs(d))
    IN  <<(s * n) \div g, (s * d) \div g>>

R(n) == <<n, 1>>
RAdd(a, b) == Rat(a[1] * b[2] + b[1] * a[2], a[2] * b[2])
RSub(a, b) == Rat(a[1] * b[2] - b[1] * a[2], a[2] * b[2])
RMul(a, b) == Rat(a[1] * b[1], a[2] * b[2])
RDiv(a, b) == Rat(a[1] * b[2], a[2] * b[1])
RLt(a, b) == a[1] * b[2] < b[1] * a[2]
RLe(a, b) == a[1] * b[2] <= b[1] * a[2]
RMin(a, b) == IF RLe(a, b) THEN a ELSE b
RMax(a, b) == IF RLe(a, b) THEN b ELSE a
\* Math.ceil and Math.floor of a rational
RFloor(a) == a[1] \div a[2]
\* a % b of JavaScript for a >= 0 and b > 0
RMod(a, b) == RSub(a, RMul(R(RFloor(RDiv(a, b))), b))
RCeil(a) == -((-a[1]) \div a[2])

----------------------------------------------------------------------------
(* interpolation.js                                                        *)

linear(t) == t

easeIn(t) == RMul(t, RMul(t, t))

easeOut(t) ==
    LET u == RSub(R(1), t) IN RSub(R(1), RMul(u, RMul(u, u)))

easeInOut(t) ==
    IF RLt(t, Rat(1, 2))
    THEN RMul(R(4), RMul(t, RMul(t, t)))
    ELSE LET u == RAdd(RMul(R(-2), t), R(2))
         IN  RSub(R(1), RDiv(RMul(u, RMul(u, u)), R(2)))

\* ((a * t + b) * t + c) * t: sampleCurveX and sampleCurveY
sampleCurve(a, b, c, t) == RMul(RAdd(RMul(RAdd(RMul(a, t), b), t), c), t)

RAbs(a) == <<Abs(a[1]), a[2]>>

\* the Newton-Raphson iterations i..7 from t2, for the curve ax, bx, cx
RECURSIVE NewtonRaphson(_, _, _, _, _, _)
NewtonRaphson(t, t2, ax, bx, cx, i) ==
    IF i = 8 THEN t2
    ELSE LET x == RSub(sampleCurve(ax, bx, cx, t2), t)
             d == RAdd(RMul(RAdd(RMul(RMul(R(3), ax), t2),
                                 RMul(R(2), bx)), t2), cx)
         IN  IF RLt(RAbs(x), Rat(1, 1000)) THEN t2
             ELSE IF RLt(RAbs(d), Rat(1, 1000000)) THEN t2
             ELSE NewtonRaphson(t, RSub(t2, RDiv(x, d)), ax, bx, cx, i + 1)

bezier(t, p1, p2, p3, p4) ==
    LET cx == RMul(R(3), p1)
        bx == RSub(RMul(R(3), RSub(p3, p1)), cx)
        ax == RSub(RSub(R(1), cx), bx)
        cy == RMul(R(3), p2)
        by == RSub(RMul(R(3), RSub(p4, p2)), cy)
        ay == RSub(RSub(R(1), cy), by)
    IN  sampleCurve(ay, by, cy, NewtonRaphson(t, t, ax, bx, cx, 0))

\* the default control points of bezier: 0.42, 0, 0.58, 1
DefaultControlPoints == <<Rat(42, 100), R(0), Rat(58, 100), R(1)>>

\* this[type] ? this[type](t) : this.linear(t)
Eased(t, type) ==
    CASE type = "linear" -> linear(t)
      [] type = "easeIn" -> easeIn(t)
      [] type = "easeOut" -> easeOut(t)
      [] type = "easeInOut" -> easeInOut(t)
      [] type = "bezier" ->
            bezier(t, DefaultControlPoints[1], DefaultControlPoints[2],
                   DefaultControlPoints[3], DefaultControlPoints[4])
      [] OTHER -> linear(t)

\* variant: the eased value weighs the first value
interpolateReversed(a, b, t, type) ==
    RAdd(b, RMul(RSub(a, b), Eased(t, type)))

interpolate(a, b, t, type) == RAdd(a, RMul(RSub(b, a), Eased(t, type)))

RECURSIVE normalizeAngle(_)
normalizeAngle(angle) ==
    IF RLt(R(180), angle) THEN normalizeAngle(RSub(angle, R(360)))
    ELSE IF RLt(angle, R(-180)) THEN normalizeAngle(RAdd(angle, R(360)))
    ELSE angle

\* variant: the difference is not wrapped
shortestPathUnwrapped(s, e) == RSub(e, s)

\* let diff = end - start and the two wraps of it, for normalized s and e
shortestPath(s, e) ==
    LET d0 == RSub(e, s)
        d1 == IF RLt(R(180), d0) THEN RSub(d0, R(360)) ELSE d0
    IN  IF RLt(d1, R(-180)) THEN RAdd(d1, R(360)) ELSE d1

interpolateAngle(start, end, t, type) ==
    LET s == normalizeAngle(start)
        e == normalizeAngle(end)
    IN  normalizeAngle(RAdd(s, RMul(shortestPath(s, e), Eased(t, type))))

----------------------------------------------------------------------------
(* Keyframe and KeyframeManager (sampling)                                 *)

\* new Keyframe(time, cameraData, interpolationType): the fields it sets;
\* this.fov = cameraData.fov || 60
Keyframe(time, lat, lon, h, hd, p, r, fov, type) ==
    [time |-> time, latitude |-> lat, longitude |-> lon, height |-> h,
     heading |-> hd, pitch |-> p, roll |-> r,
     fov |-> IF fov = R(0) THEN R(60) ELSE fov,
     interpolationType |-> type]

\* a Keyframe object: its fields and its identity, the number of the
\* construction that made it
Object(id, kf) ==
    [id |-> id, time |-> kf.time, latitude |-> kf.latitude,
     longitude |-> kf.longitude, height |-> kf.height,
     heading |-> kf.heading, pitch |-> kf.pitch, roll |-> kf.roll,
     fov |-> kf.fov, interpolationType |-> kf.interpolationType]

\* Keyframe.toJSON
toJSON(kf) ==
    [time |-> kf.time, latitude |-> kf.latitude, longitude |-> kf.longitude,
     height |-> kf.height, heading |-> kf.heading, pitch |-> kf.pitch,
     roll |-> kf.roll, fov |-> kf.fov,
     interpolationType |-> kf.interpolationType]

\* Keyframe.fromJSON, the object being the id-th one constructed
fromJSON(id, data) ==
    Object(id, Keyframe(data.time, data.latitude, data.longitude,
                        data.height, data.heading, data.pitch, data.roll,
                        data.fov, data.interpolationType))

\* the pose interpolateAt returns when there are no keyframes
DefaultPose ==
    [latitude |-> Rat(356762, 10000), longitude |-> Rat(1396503, 10000),
     height |-> R(10000), heading |-> R(0), pitch |-> R(-45), roll |-> R(0),
     fov |-> R(60)]

\* Keyframe.toJSON restricted to the fields the renderer reads
PoseOf(kf) ==
    [latitude |-> kf.latitude, longitude |-> kf.longitude,
     height |-> kf.height, heading |-> kf.heading, pitch |-> kf.pitch,
     roll |-> kf.roll, fov |-> kf.fov]

\* variant: the loop does not break, after is the last keyframe with
\* time >= t
ScanSurroundingLast(kfs, t, i, before) ==
    LET le == {j \in i..Len(kfs) : RLe(kfs[j].time, t)}
        ge == {j \in i..Len(kfs) : RLe(t, kfs[j].time)}
        Last(S) == IF S = {} THEN 0 ELSE CHOOSE j \in S : \A k \in S : k <= j
    IN  [before |-> Last(le), after |-> Last(ge)]

\* variant: before is assigned only for a time < t
RECURSIVE ScanSurroundingStrict(_, _, _, _)
ScanSurroundingStrict(kfs, t, i, before) ==
    IF i > Len(kfs) THEN [before |-> before, after |-> 0]
    ELSE LET b == IF RLt(kfs[i].time, t) THEN i ELSE before
         IN  IF RLe(t, kfs[i].time)
             THEN [before |-> b, after |-> i]
             ELSE ScanSurroundingStrict(kfs, t, i + 1, b)

\* index of the last keyframe with time <= t scanned before the loop breaks,
\* and of the first keyframe with time >= t; 0 stands for null
RECURSIVE ScanSurrounding(_, _, _, _)
ScanSurrounding(kfs, t, i, before) ==
    IF i > Len(kfs) THEN [before |-> before, after |-> 0]
    ELSE LET b == IF RLe(kfs[i].time, t) THEN i ELSE before
         IN  IF RLe(t, kfs[i].time)
             THEN [before |-> b, after |-> i]
             ELSE ScanSurrounding(kfs, t, i + 1, b)

getSurroundingKeyframes(kfs, t) ==
    IF Len(kfs) = 0 THEN [before |-> 0, after |-> 0]
    ELSE ScanSurrounding(kfs, t, 1, 0)

\* variant: the easing of the keyframe after
SegmentEasingOfAfter(before, after) == after.interpolationType

\* const interpType = before.interpolationType
SegmentEasing(before, after) == before.interpolationType

interpolateAt(kfs, time) ==
    LET s == getSurroundingKeyframes(kfs, time)
    IN  IF s.before = 0 /\ s.after = 0 THEN DefaultPose
        ELSE IF s.before = 0 THEN PoseOf(kfs[s.after])
        ELSE IF s.after = 0 THEN PoseOf(kfs[s.before])
        ELSE IF s.before = s.after THEN PoseOf(kfs[s.before])
        ELSE LET b == kfs[s.before]
                 a == kfs[s.after]
                 dur == RSub(a.time, b.time)
                 el == RSub(time, b.time)
                 t == IF RLt(R(0), dur) THEN RDiv(el, dur) ELSE R(0)
                 ty == SegmentEasing(b, a)
             IN  [latitude |-> interpolate(b.latitude, a.latitude, t, ty),
                  longitude |-> interpolate(b.longitude, a.longitude, t, ty),
                  height |-> interpolate(b.height, a.height, t, ty),
                  heading |-> interpolateAngle(b.heading, a.heading, t, ty),
                  pitch |-> interpolateAngle(b.pitch, a.pitch, t, ty),
                  roll |-> interpolateAngle(b.roll, a.roll, t, ty),
                  fov |-> interpolate(b.fov, a.fov, t, ty)]

----------------------------------------------------------------------------
(* KeyframeManager (editing)                                               *)

\* null, and a reference to the Keyframe object id
NoKeyframe == <<>>
Ref(id) == <<id>>

\* the order sortKeyframes establishes: ascending by time
Sorted(kfs) ==
    \A i \in 1..(Len(kfs) - 1) : RLe(kfs[i].time, kfs[i + 1].time)

\* where Array.prototype.sort puts kf among elements already in order: after
\* those whose time is not greater (the sort is stable)
RECURSIVE InsertByTime(_, _)
InsertByTime(kfs, kf) ==
    IF kfs = <<>> THEN <<kf>>
    ELSE IF RLe(Head(kfs).time, kf.time)
         THEN <<Head(kfs)>> \o InsertByTime(Tail(kfs), kf)
         ELSE <<kf>> \o kfs

\* variant: the array is left as it is
sortKeyframesNot(kfs) == kfs

\* this.keyframes.sort((a, b) => a.time - b.time)
RECURSIVE sortKeyframes(_)
sortKeyframes(kfs) ==
    IF kfs = <<>> THEN <<>>
    ELSE InsertByTime(sortKeyframes(SubSeq(kfs, 1, Len(kfs) - 1)),
                      kfs[Len(kfs)])

\* push and sort
addKeyframe(kfs, kf) == sortKeyframes(Append(kfs, kf))

\* indexOf and splice
Without(kfs, ref) == SelectSeq(kfs, LAMBDA k : Ref(k.id) # ref)

\* variant: removeKeyframe leaves the selection as it is
SelectionAfterRemoveKept(kfs, sel, ref) == sel

\* removeKeyframe: the selection is cleared if the keyframe was in the
\* collection and is the selected one
SelectionAfterRemove(kfs, sel, ref) ==
    IF Without(kfs, ref) # kfs /\ sel = ref THEN NoKeyframe ELSE sel

\* Object.assign(keyframe, newData)
Assign(kf, newData) ==
    [f \in DOMAIN kf |-> IF f \in DOMAIN newData THEN newData[f] ELSE kf[f]]

\* Object.assign on the object ref refers to, then sort
updateKeyframe(kfs, ref, newData) ==
    sortKeyframes([i \in DOMAIN kfs |->
        IF Ref(kfs[i].id) = ref THEN Assign(kfs[i], newData) ELSE kfs[i]])

\* emit(event, data): data is the keyframe the event is about, or null; the
\* data of 'keyframesChanged' is the collection itself, which is not recorded
Event(event, data) == [event |-> event, data |-> data]

\* a call of a method of the manager: the keyframe it was given (null for
\* clear), the events it emitted, in order, and what it returned
ManagerCall(method, ref, events, result) ==
    [method |-> method, keyframe |-> ref, events |-> events,
     result |-> result]

\* variant: addKeyframe emits 'keyframeAdded' only
addKeyframeEventsAddedOnly(ref) == <<Event("keyframeAdded", ref)>>

\* the emits of addKeyframe(keyframe)
addKeyframeEvents(ref) ==
    <<Event("keyframeAdded", ref), Event("keyframesChanged", NoKeyframe)>>

\* the emits of removeKeyframe(keyframe): none if indexOf is -1
removeKeyframeEvents(kfs, sel, ref) ==
    IF Without(kfs, ref) = kfs THEN <<>>
    ELSE (IF sel = ref THEN <<Event("keyframeSelected", NoKeyframe)>>
                       ELSE <<>>)
         \o <<Event("keyframeRemoved", ref),
              Event("keyframesChanged", NoKeyframe)>>

\* what removeKeyframe(keyframe) returns
removeKeyframeResult(kfs, ref) ==
    IF Without(kfs, ref) = kfs THEN "false" ELSE "true"

\* the emits of updateKeyframe(keyframe, newData)
updateKeyframeEvents(ref) ==
    <<Event("keyframeUpdated", ref), Event("keyframesChanged", NoKeyframe)>>

\* the emits of selectKeyframe(keyframe)
selectKeyframeEvents(ref) == <<Event("keyframeSelected", ref)>>

\* the emits of clear()
clearEvents == <<Event("keyframesChanged", NoKeyframe)>>

\* the calls importFromJSON makes when n objects had been constructed before
\* it and m after it: clear(), then addKeyframe for each object constructed
importFromJSONCalls(n, m) ==
    <<ManagerCall("clear", NoKeyframe, clearEvents, "undefined")>>
    \o [i \in 1..(m - n) |->
          ManagerCall("addKeyframe", Ref(n + i), addKeyframeEvents(Ref(n + i)),
                      "keyframe")]

\* a JSON array, and a JSON value that is truthy and no array
Array(items) == [array |-> TRUE, items |-> items]
NoArray == [array |-> FALSE, items |-> <<>>]
\* JSON null among the elements of an array
Null == [null |-> TRUE]

\* exportToJSON
exportToJSON(kfs) ==
    [version |-> "1.0",
     keyframes |-> Array([i \in DOMAIN kfs |-> toJSON(kfs[i])])]

\* data.keyframes.forEach(kfData => addKeyframe(Keyframe.fromJSON(kfData)))
\* from element i on: the collection, the objects constructed and whether a
\* TypeError was thrown
RECURSIVE ForEachAdd(_, _, _, _)
ForEachAdd(items, i, kfs, n) ==
    IF i > Len(items) THEN [keyframes |-> kfs, created |-> n, threw |-> FALSE]
    ELSE IF "null" \in DOMAIN items[i]
         THEN [keyframes |-> kfs, created |-> n, threw |-> TRUE]
         ELSE ForEachAdd(items, i + 1,
                         addKeyframe(kfs, fromJSON(n + 1, items[i])), n + 1)

\* importFromJSON(data) with data.keyframes truthy, on the collection kfs
\* when n objects have been constructed: clear(), then forEach
importFromJSON(data, kfs, n) ==
    IF ~data.keyframes.array
    THEN [keyframes |-> <<>>, created |-> n, threw |-> TRUE]
    ELSE ForEachAdd(data.keyframes.items, 1, <<>>, n)

----------------------------------------------------------------------------
(* Bounds and input sets                                                   *)

\* how many times startExport / startServerExport get past their guard
MaxExports == 2
\* how many status requests of one server export are in flight at a time
MaxInFlight == 2

\* values of #input-duration and #select-fps the clock was configured with
Durations == {Rat(3, 4)}
ClockFpsChoices == {2}
\* values of #export-fps and #export-resolution
ExportFpsChoices == {2}
Resolutions == {<<1280, 720>>}
\* values typed into #input-duration and chosen in #select-fps afterwards
DurationInputs == {Rat(1, 2), R(1)}
FpsInputs == {2, 4}
\* seconds of wall-clock time the calls of animate() after one play() cover
MaxWallSeconds == 3
\* time between two calls of animate() while the user edits the settings
ClockSpacings == {Rat(1, 4), R(1)}
\* the clock scenario: fps, duration in seconds, and the time between two
\* calls of animate() (60 Hz, 30 Hz and 10 Hz callbacks)
ScenarioClock == [fps |-> 30, duration |-> R(2)]
ScenarioSpacings == {Rat(1, 60), Rat(1, 30), Rat(1, 10)}
\* positions of #progress-slider (0..1000)
SliderPositions == {1000}
\* inline size of the viewer container when the page is loaded
InitialStyles == {<<0, "">>, <<100, "%">>}
\* what the status endpoint can report while the job runs
ServerProgress == {50}
ServerMessages == {"rendering", "encoding"}
\* status.error of a failed status (empty: absent)
ServerErrors == {"", "ffmpeg exited with code 1"}

\* the bodies of the status responses
StatusBody(st, pr, message, text) ==
    [status |-> st, progress |-> pr, message |-> message, error |-> text]

StatusBodies ==
    {StatusBody("processing", pr, m, "") :
        pr \in ServerProgress, m \in ServerMessages}
    \cup {StatusBody("completed", 100, "completed", "")}
    \cup {StatusBody("failed", 0, "", text) : text \in ServerErrors}

Timelines ==
    { << Object(1, Keyframe(R(0), R(35), R(139), R(500), R(350), R(-45),
                            R(0), R(60), "easeInOut")),
         Object(2, Keyframe(Rat(1, 2), R(35), R(139), R(1000), R(10),
                            R(-60), R(0), R(50), "linear")) >> }

\* the timelines sampled: up to MaxSampled keyframes at 0, 5 and 10 s, in
\* order of time, of two kinds
MaxSampled == 3
SampleKeyframes ==
    {Keyframe(R(t), R(35), R(139), R(k[1]), R(k[2]), R(-45), R(0), R(60),
              k[3]) :
        t \in {0, 5, 10},
        k \in {<<500, 350, "linear">>, <<1000, 10, "easeIn">>}}
SampleTimelines ==
    UNION {{[i \in 1..n |-> Object(i, kfs[i])] :
               kfs \in {s \in [1..n -> SampleKeyframes] : Sorted(s)}} :
           n \in 0..MaxSampled}
\* the times sampled
SampleTimes == {R(0), Rat(5, 2), R(5), Rat(15, 2), R(10)}
\* duration and fps the AnimationController is constructed with
DefaultClock == [fps |-> 30, duration |-> R(10)]

\* how many Keyframe objects are constructed
MaxKeyframes == 3
\* what the inputs of the property panel hold when a button is clicked:
\* cameraData and the value of #select-interpolation; one pose, with
\* #input-fov at 60 and at 0
PanelInputs ==
    { [latitude |-> R(35), longitude |-> R(139), height |-> R(500),
       heading |-> R(350), pitch |-> R(-45), roll |-> R(0), fov |-> R(60),
       interpolationType |-> "linear"],
      [latitude |-> R(35), longitude |-> R(139), height |-> R(500),
       heading |-> R(350), pitch |-> R(-45), roll |-> R(0), fov |-> R(0),
       interpolationType |-> "linear"] }
\* the snapped times a keyframe is dragged to
DragTimes == {R(0), Rat(1, 2)}

ExportIds == 1..MaxExports

\* the easing kinds, and a name that is none of them
EasingKinds == {"linear", "easeIn", "easeOut", "easeInOut", "bezier", "step"}
\* values of t: those for which the Newton-Raphson iteration of bezier stops
\* at once, and for the other kinds a quarter as well
EasingTimes(type) ==
    {R(0), Rat(1, 2), R(1)}
        \cup (IF type = "bezier" THEN {} ELSE {Rat(1, 4)})
\* control points given to bezier, some of them outside [0, 1]
ControlPoints == {Rat(-1, 2), R(0), Rat(42, 100), R(1), R(2)}
\* values interpolated between
LerpValues == {R(-3), R(0), Rat(7, 2), R(1000)}
\* angles in degrees
Angles == {R(-540), R(-190), R(-180), R(-170), R(-90), R(0), R(10), R(170),
           R(180), R(350), R(540)}

----------------------------------------------------------------------------
(* AnimationController                                                     *)

Pusher(who, i, k) == <<who, i, k>>

\* updateCamera(): setCameraPosition + setFOV with the sampled pose
updateCamera(time) ==
    [pose |-> interpolateAt(keyframes, time), by |-> Pusher("clock", 0, 0)]

\* variant: Math.max(0, time)
ClampTimeBelow(time) == RMax(R(0), time)

\* Math.max(0, Math.min(this.duration, time))
ClampTime(time) == RMax(R(0), RMin(duration, time))

\* this.frameInterval / 1000
FrameInterval == RDiv(frameInterval, R(1000))

\* what `emitted` holds: the method of the clock called last, and the events
\* the clock emitted during the step that called it, in order
Call(method, events) == [by |-> method, events |-> events]

NoCall == Call("", <<>>)

\* play() past its guard: this.lastFrameTime = performance.now(); the events
\* and the time counted since play() start again
Restart ==
    /\ elapsed' = R(0)
    /\ finished' = 0
    /\ wall' = R(0)
    /\ wide' = FALSE

\* the events of pause() called when the clock is or is not playing
pauseEvents(playing) == IF playing THEN <<"pause">> ELSE <<>>

\* the events of seekTo(time)
seekToEvents == <<"timeUpdate">>

\* the events of stop(): those of this.pause(), then 'stop'
stopEvents(playing) == pauseEvents(playing) \o <<"stop">>

\* requestAnimationFrame(() => this.animate()): one more callback pending
Requested(n) == n + 1

\* a pending callback is run
Fired(n) == n - 1

\* variant: pause() does not cancel the pending callback
CancelFrameNone(n) == n

\* cancelAnimationFrame(this.animationFrameId)
CancelFrame(n) == n - 1

\* the callbacks pending after pause() called with isPlaying = playing
pauseScheduled(playing) ==
    IF playing /\ animationFrameId THEN CancelFrame(scheduled) ELSE scheduled

\* variant: pause() leaves the camera controls as they are
pauseControlsKept(playing) == cameraControls

\* the camera controls after pause() called with isPlaying = playing:
\* enableCameraControls(true) past the guard
pauseControls(playing) == IF playing THEN TRUE ELSE cameraControls

\* variant: play() without its guard
playUnguarded ==
    /\ isPlaying' = TRUE
    /\ Restart
    /\ animationFrameId' = TRUE
    /\ scheduled' = Requested(scheduled)
    /\ cameraControls' = FALSE
    /\ emitted' = Call("play", <<"play">>)
    /\ UNCHANGED <<currentTime, clockConfig, camera>>

\* play(); the animate() it calls finds no frame interval elapsed and
\* requests the first callback
play ==
    IF isPlaying
    THEN /\ emitted' = Call("play", <<>>)
         /\ UNCHANGED <<isPlaying, currentTime, clockConfig, timing,
                        animationFrameId, scheduled, cameraControls, camera>>
    ELSE /\ isPlaying' = TRUE
         /\ Restart
         /\ cameraControls' = FALSE
         /\ animationFrameId' = TRUE
         /\ scheduled' = Requested(scheduled)
         /\ emitted' = Call("play", <<"play">>)
         /\ UNCHANGED <<currentTime, clockConfig, camera>>

pause ==
    /\ isPlaying' = FALSE
    /\ cameraControls' = pauseControls(isPlaying)
    /\ animationFrameId' = (IF isPlaying THEN FALSE ELSE animationFrameId)
    /\ scheduled' = pauseScheduled(isPlaying)
    /\ emitted' = Call("pause", pauseEvents(isPlaying))
    /\ UNCHANGED <<currentTime, clockConfig, timing, camera>>

stop ==
    /\ isPlaying' = FALSE
    /\ cameraControls' = pauseControls(isPlaying)
    /\ animationFrameId' = (IF isPlaying THEN FALSE ELSE animationFrameId)
    /\ scheduled' = pauseScheduled(isPlaying)
    /\ currentTime' = R(0)
    /\ camera' = updateCamera(R(0))
    /\ emitted' = Call("stop", stopEvents(isPlaying))
    /\ UNCHANGED <<clockConfig, timing>>

seekTo(time) ==
    /\ currentTime' = ClampTime(time)
    /\ camera' = updateCamera(ClampTime(time))
    /\ emitted' = Call("seekTo", seekToEvents)
    /\ UNCHANGED <<isPlaying, clockConfig, timing, animationFrameId, scheduled, cameraControls>>

\* playFromStart(): stop(), then play(), whose guard stop() has opened
playFromStart ==
    /\ isPlaying' = TRUE
    /\ Restart
    /\ currentTime' = R(0)
    /\ camera' = updateCamera(R(0))
    /\ cameraControls' = FALSE
    /\ animationFrameId' = TRUE
    /\ scheduled' = Requested(pauseScheduled(isPlaying))
    /\ emitted' = Call("playFromStart", stopEvents(isPlaying) \o <<"play">>)
    /\ UNCHANGED clockConfig

stepForward == seekTo(RAdd(currentTime, Rat(1, fps)))

stepBackward == seekTo(RSub(currentTime, Rat(1, fps)))

setDuration(d) ==
    /\ duration' = d
    /\ emitted' = Call("setDuration", <<>>)
    /\ UNCHANGED <<isPlaying, currentTime, fps, frameInterval, loop, timing,
                   animationFrameId, scheduled, cameraControls, camera>>

\* variant: this.frameInterval is left as it was
setFPSOnly(f) ==
    /\ fps' = f
    /\ emitted' = Call("setFPS", <<>>)
    /\ UNCHANGED <<isPlaying, currentTime, duration, frameInterval, loop,
                   timing, animationFrameId, scheduled, cameraControls, camera>>

setFPS(f) ==
    /\ fps' = f
    /\ frameInterval' = Rat(1000, f)
    /\ emitted' = Call("setFPS", <<>>)
    /\ UNCHANGED <<isPlaying, currentTime, duration, loop, timing,
                   animationFrameId, scheduled, cameraControls, camera>>

setLoop(l) ==
    /\ loop' = l
    /\ emitted' = Call("setLoop", <<>>)
    /\ UNCHANGED <<isPlaying, currentTime, duration, fps, frameInterval,
                   timing, animationFrameId, scheduled, cameraControls, camera>>

\* variant: the end of the timeline is handled as if loop were off
EndOfTimelineNoLoop ==
    /\ currentTime' = duration
    /\ isPlaying' = FALSE
    /\ cameraControls' = pauseControls(TRUE)
    /\ animationFrameId' = FALSE
    /\ scheduled' = Fired(scheduled)
    /\ finished' = finished + 1
    /\ emitted' = Call("animate", <<"pause", "timeUpdate", "finished">>)
    /\ UNCHANGED camera

\* variant: the branch without loop does not return
EndOfTimelineFallingThrough ==
    IF loop
    THEN /\ currentTime' = R(0)
         /\ camera' = updateCamera(R(0))
         /\ emitted' = Call("animate", <<"timeUpdate", "frameUpdate">>)
         /\ animationFrameId' = TRUE
         /\ scheduled' = Requested(Fired(scheduled))
         /\ UNCHANGED <<isPlaying, finished, cameraControls>>
    ELSE /\ currentTime' = duration
         /\ isPlaying' = FALSE
         /\ cameraControls' = pauseControls(TRUE)
         /\ animationFrameId' = TRUE
         /\ scheduled' = Requested(Fired(scheduled))
         /\ finished' = finished + 1
         /\ camera' = updateCamera(duration)
         /\ emitted' = Call("animate", <<"pause", "timeUpdate", "finished",
                                        "timeUpdate", "frameUpdate">>)

\* if (this.currentTime >= this.duration) { ... } and what follows it: with
\* loop the frame is processed at time 0; without, pause(), 'timeUpdate',
\* 'finished' and return, no callback requested
EndOfTimeline ==
    IF loop
    THEN /\ currentTime' = R(0)
         /\ camera' = updateCamera(R(0))
         /\ emitted' = Call("animate", <<"timeUpdate", "frameUpdate">>)
         /\ animationFrameId' = TRUE
         /\ scheduled' = Requested(Fired(scheduled))
         /\ UNCHANGED <<isPlaying, finished, cameraControls>>
    ELSE /\ currentTime' = duration
         /\ isPlaying' = FALSE
         /\ cameraControls' = pauseControls(TRUE)
         /\ animationFrameId' = FALSE
         /\ scheduled' = Fired(scheduled)
         /\ finished' = finished + 1
         /\ emitted' = Call("animate", <<"pause", "timeUpdate", "finished">>)
         /\ UNCHANGED camera

\* variant: this.lastFrameTime = now, the remainder is dropped
CarryNone(e) == R(0)

\* this.lastFrameTime = now - (elapsed % this.frameInterval): what of the
\* elapsed time e is carried to the next call
Carry(e) == RMod(e, FrameInterval)

\* variant: the time advances by the elapsed amount
AdvanceElapsed(e) == e

\* this.currentTime += this.frameInterval / 1000, whatever has elapsed
Advance(e) == FrameInterval

\* the requestAnimationFrame callback: animate() called dt seconds after the
\* previous call (or after play()).  A frame is processed if at least one
\* frame interval has elapsed since lastFrameTime, and the remainder is
\* carried to the next call; the next callback is requested unless the clock
\* finished
animate(dt) ==
    /\ scheduled > 0
    /\ IF ~isPlaying
       THEN /\ scheduled' = Fired(scheduled)
            /\ emitted' = Call("animate", <<>>)
            /\ UNCHANGED <<isPlaying, currentTime, timing, animationFrameId,
                           cameraControls, camera>>
       ELSE /\ LET e == RAdd(elapsed, dt) IN
                IF RLe(FrameInterval, e)
                THEN /\ elapsed' = Carry(e)
                     /\ LET t == RAdd(currentTime, Advance(e)) IN
                         IF RLe(duration, t)
                         THEN EndOfTimeline
                         ELSE /\ currentTime' = t
                              /\ camera' = updateCamera(t)
                              /\ emitted' = Call("animate",
                                               <<"timeUpdate", "frameUpdate">>)
                              /\ animationFrameId' = TRUE
                              /\ scheduled' = Requested(Fired(scheduled))
                              /\ UNCHANGED <<isPlaying, finished,
                                             cameraControls>>
                ELSE /\ elapsed' = e
                     /\ emitted' = Call("animate", <<>>)
                     /\ animationFrameId' = TRUE
                     /\ scheduled' = Requested(Fired(scheduled))
                     /\ UNCHANGED <<isPlaying, currentTime, finished,
                                    cameraControls, camera>>
            /\ wall' = RAdd(wall, dt)
            /\ wide' = (wide \/ RLt(FrameInterval, dt))
    /\ UNCHANGED clockConfig

----------------------------------------------------------------------------
(* VideoExporter: state of one invocation                                  *)

\* no frame: nothing was in progress when the export was cancelled
NoFrame == <<>>

\* an Error: its message and the number the message embeds, if any
NoError == [msg |-> "", n |-> 0]
Err(msg, k) == [msg |-> msg, n |-> k]

\* the text of #export-status: which message it is and the numbers in it
\* (the text of an error is in the record of the return)
Status(kind, err, a, b) == [kind |-> kind, a |-> a, b |-> b]

Px(n) == <<n, "px">>
Style(w, h) == [width |-> w, height |-> h]
NoStyle == Style(<<0, "">>, <<0, "">>)

IdleExport ==
    [mode |-> "none", pc |-> "idle",
     \* locals of startExport / startServerExport
     sessionId |-> 0, efps |-> 0, totalFrames |-> 0, width |-> 0,
     height |-> 0, frame |-> 0, wasPlaying |-> FALSE, original |-> NoStyle,
     \* polling: setInterval handle, the awaited promise, callbacks in flight,
     \* pending timers that hide the dialog
     interval |-> FALSE, promise |-> "none", inFlight |-> 0, hideTimers |-> 0,
     \* requests this invocation has sent
     uploads |-> <<>>, finishSent |-> 0, downloads |-> 0,
     \* observations used by the properties
     preStyle |-> NoStyle, preTime |-> R(0), prePlaying |-> FALSE,
     cancelFrame |-> NoFrame, cancelSeen |-> FALSE, terminalSeen |-> FALSE,
     cancelled |-> FALSE]

\* the function has returned: its locals are gone; what poll callbacks that
\* are still in flight use stays
Returned(e, pc) ==
    [IdleExport EXCEPT !.mode = e.mode, !.pc = pc, !.inFlight = e.inFlight,
                       !.hideTimers = e.hideTimers,
                       !.downloads = e.downloads,
                       !.terminalSeen = e.terminalSeen]

\* the record of a return: of which mode, with which error, at which frame,
\* having sent what
Outcome(i, e, err) ==
    [mode |-> e.mode, error |-> err, frame |-> e.frame,
     uploads |-> e.uploads, finishSent |-> e.finishSent]

NoOutcome == Outcome(0, IdleExport, NoError)

\* the session id the backend answers the start request of invocation i with
SessionId(i) == i

LoopPcs == {"wait_render", "wait_blob", "wait_upload", "wait_gc"}

Started == {i \in ExportIds : exports[i].mode # "none"}
NextId == Cardinality(Started) + 1

\* Math.ceil(duration * fps)
TotalFrames(dur, f) == RCeil(RMul(dur, R(f)))

\* frame / fps
FrameTime(frame, f) == Rat(frame, f)

\* ((frame + 1) / totalFrames) * 80
CaptureProgress(frame, total) == RMul(Rat(frame + 1, total), R(80))

\* hideDialog(), given the value isExporting has when it runs
hideDialog(exporting) == IF exporting THEN dialogShown ELSE FALSE

\* the size the catch block of startExport gives the container
CatchStyle == Style(<<100, "%">>, <<100, "%">>)

\* catch (error) of startExport, entered by invocation i with exports = exps
Catch(i, exps, msg) ==
    /\ exportProgress' = R(0)
    /\ statusText' = Status("error", msg, 0, 0)
    /\ isExporting' = FALSE
    /\ btnStartDisabled' = FALSE
    /\ container' = CatchStyle
    /\ exports' = [exps EXCEPT ![i] = Returned(@, "done")]
    /\ returned' = Outcome(i, exps[i], msg)
    /\ UNCHANGED <<dialogShown, btnServerDisabled>>

\* the pose startExport gives the renderer for frame k
FramePush(i, e, k) ==
    [pose |-> interpolateAt(keyframes, FrameTime(k, e.efps)),
     by |-> Pusher("export", i, k)]

\* the top of one iteration of the capture loop, for frame k; cont is the
\* size the container has when the iteration is entered
LoopTop(i, exps, k, cont) ==
    IF ~isExporting
    THEN /\ Catch(i, exps, Err("export cancelled", 0))
         /\ UNCHANGED camera
    ELSE /\ camera' = FramePush(i, exps[i], k)
         /\ exports' = [exps EXCEPT ![i].pc = "wait_render", ![i].frame = k]
         /\ container' = cont
         /\ UNCHANGED <<uiVars, returned>>

----------------------------------------------------------------------------
(* VideoExporter.startExport                                               *)
(* An awaited fetch and the awaited body of its response are one step:     *)
(* nothing reads the state in between.  So are the two animation frames    *)
(* of waitForRender.                                                       *)

\* click on #btn-start-export
StartExport ==
    /\ dialogShown /\ ~btnStartDisabled
    /\ NextId \in ExportIds
    /\ IF isExporting THEN UNCHANGED vars
       ELSE \E res \in Resolutions, f \in ExportFpsChoices :
            /\ isExporting' = TRUE
            /\ btnStartDisabled' = TRUE
            /\ exportProgress' = R(0)
            /\ statusText' = Status("preparing", NoError, 0, 0)
            /\ exports' = [exports EXCEPT ![NextId] =
                   [@ EXCEPT !.mode = "A", !.pc = "wait_start",
                             !.width = res[1], !.height = res[2],
                             !.efps = f,
                             !.totalFrames = TotalFrames(duration, f),
                             !.preStyle = container,
                             !.preTime = currentTime,
                             !.prePlaying = isPlaying]]
            /\ UNCHANGED <<applied, timelineVars, clockVars, camera, dialogShown,
                           btnServerDisabled, container, returned>>

\* POST /export/start fails
A_StartFailed(i) ==
    /\ exports[i].mode = "A" /\ exports[i].pc = "wait_start"
    /\ Catch(i, exports, Err("server connection error", 0))
    /\ UNCHANGED <<applied, timelineVars, clockVars, camera>>

\* POST /export/start answers with a session id: pause the clock, save the
\* container size, resize, and enter the loop
A_SessionOpened(i) ==
    /\ exports[i].mode = "A" /\ exports[i].pc = "wait_start"
    /\ LET e == exports[i]
           exps == [exports EXCEPT ![i].sessionId = SessionId(i),
                                   ![i].wasPlaying = isPlaying,
                                   ![i].original = container]
       IN  /\ isPlaying' = FALSE
           /\ IF isPlaying
              THEN /\ cameraControls' = pauseControls(isPlaying)
                   /\ animationFrameId' = FALSE
                   /\ scheduled' = pauseScheduled(isPlaying)
                   /\ emitted' = Call("pause", pauseEvents(isPlaying))
              ELSE UNCHANGED <<animationFrameId, scheduled, cameraControls, emitted>>
           /\ LoopTop(i, exps, 0, Style(Px(e.width), Px(e.height)))
    /\ UNCHANGED <<applied, timelineVars, currentTime, clockConfig, timing>>

\* waitForRender() resolves; canvas.toBlob is called
A_Rendered(i) ==
    /\ exports[i].mode = "A" /\ exports[i].pc = "wait_render"
    /\ exports' = [exports EXCEPT ![i].pc = "wait_blob"]
    /\ UNCHANGED <<applied, timelineVars, clockVars, camera, uiVars, container, returned>>

\* the request POST /export/frame sends: x-session-id, x-frame-index, and
\* the pose the renderer was last given when the request is sent
UploadRequest(e) ==
    [sessionId |-> e.sessionId, frameIndex |-> e.frame, lastPush |-> camera]

\* toBlob calls back: null aborts, otherwise the frame is uploaded
A_BlobReady(i) ==
    /\ exports[i].mode = "A" /\ exports[i].pc = "wait_blob"
    /\ \E blob \in {"png", "null"} :
        IF blob = "null"
        THEN Catch(i, exports, Err("Frame capture failed", 0))
        ELSE /\ exports' = [exports EXCEPT
                   ![i].pc = "wait_upload",
                   ![i].uploads = Append(@, UploadRequest(exports[i]))]
             /\ UNCHANGED <<uiVars, container, returned>>
    /\ UNCHANGED <<applied, timelineVars, clockVars, camera>>

\* variant: a frame whose upload failed is captured and sent once more
AfterUploadRetrying(i, ok) ==
    LET e == exports[i] IN
    IF ok
    THEN /\ exportProgress' = CaptureProgress(e.frame, e.totalFrames)
         /\ statusText' = Status("frame", NoError, e.frame + 1, e.totalFrames)
         /\ exports' = [exports EXCEPT ![i].pc = "wait_gc"]
         /\ UNCHANGED <<isExporting, dialogShown, btnStartDisabled,
                        btnServerDisabled, container, returned>>
    ELSE IF Len(e.uploads) = e.frame + 1
    THEN /\ exports' = [exports EXCEPT ![i].pc = "wait_blob"]
         /\ UNCHANGED <<uiVars, container, returned>>
    ELSE Catch(i, exports, Err("Upload failed at frame", e.frame))

\* what startExport does when the upload of a frame is answered
AfterUpload(i, ok) ==
    LET e == exports[i] IN
    IF ok
    THEN /\ exportProgress' = CaptureProgress(e.frame, e.totalFrames)
         /\ statusText' = Status("frame", NoError, e.frame + 1, e.totalFrames)
         /\ exports' = [exports EXCEPT ![i].pc = "wait_gc"]
         /\ UNCHANGED <<isExporting, dialogShown, btnStartDisabled,
                        btnServerDisabled, container, returned>>
    ELSE Catch(i, exports, Err("Upload failed at frame", e.frame))

\* the response to the upload arrives
A_UploadResponse(i) ==
    /\ exports[i].mode = "A" /\ exports[i].pc = "wait_upload"
    /\ \E ok \in BOOLEAN : AfterUpload(i, ok)
    /\ UNCHANGED <<applied, timelineVars, clockVars, camera>>

\* variant: seekTo is given the time the clock had before the export
ResetTimeRestoring(e) == e.preTime

\* the time seekTo is given after the loop
ResetTime(e) == R(0)

\* after the loop: restore the size, seekTo(0), play() if it was playing,
\* and send POST /export/finish
AfterLoop(i) ==
    LET e == exports[i] IN
    /\ container' = e.original
    /\ currentTime' = ClampTime(ResetTime(e))
    /\ camera' = updateCamera(ClampTime(ResetTime(e)))
    /\ isPlaying' = (isPlaying \/ e.wasPlaying)
    /\ IF e.wasPlaying /\ ~isPlaying
       THEN /\ Restart
            /\ cameraControls' = FALSE
            /\ animationFrameId' = TRUE
            /\ scheduled' = Requested(scheduled)
            /\ emitted' = Call("play", seekToEvents \o <<"play">>)
       ELSE /\ emitted' = Call(IF e.wasPlaying THEN "play" ELSE "seekTo",
                               seekToEvents)
            /\ UNCHANGED <<timing, animationFrameId, scheduled, cameraControls>>
    /\ exportProgress' = R(80)
    /\ statusText' = Status("encoding", NoError, 0, 0)
    /\ exports' = [exports EXCEPT ![i].pc = "wait_finish",
                                  ![i].frame = e.frame + 1,
                                  ![i].finishSent = @ + 1]
    /\ UNCHANGED <<isExporting, dialogShown, btnStartDisabled,
                   btnServerDisabled, clockConfig, returned>>

\* the 20 ms timer fires: frame++, then the next iteration or the loop ends
A_NextFrame(i) ==
    /\ exports[i].mode = "A" /\ exports[i].pc = "wait_gc"
    /\ LET e == exports[i] IN
       IF e.frame + 1 < e.totalFrames
       THEN /\ LoopTop(i, exports, e.frame + 1, container)
            /\ UNCHANGED clockVars
       ELSE AfterLoop(i)
    /\ UNCHANGED <<applied, timelineVars>>

\* POST /export/finish fails
A_FinishFailed(i) ==
    /\ exports[i].mode = "A" /\ exports[i].pc = "wait_finish"
    /\ Catch(i, exports, Err("encode error", 0))
    /\ UNCHANGED <<applied, timelineVars, clockVars, camera>>

\* POST /export/finish answers with the video: it is saved, 100% is
\* reported and the 2 s timer is set
A_VideoReceived(i) ==
    /\ exports[i].mode = "A" /\ exports[i].pc = "wait_finish"
    /\ exportProgress' = R(100)
    /\ statusText' = Status("complete", NoError, 0, 0)
    /\ LET e == [exports[i] EXCEPT !.downloads = @ + 1] IN
        /\ exports' = [exports EXCEPT ![i] = Returned(e, "timer")]
        /\ returned' = Outcome(i, e, NoError)
    /\ UNCHANGED <<applied, timelineVars, clockVars, camera, isExporting, dialogShown,
                   btnStartDisabled, btnServerDisabled, container>>

\* the 2 s timer set on success fires
A_CompletionTimer(i) ==
    /\ exports[i].mode = "A" /\ exports[i].pc = "timer"
    /\ isExporting' = FALSE
    /\ btnStartDisabled' = FALSE
    /\ dialogShown' = hideDialog(FALSE)
    /\ exports' = [exports EXCEPT ![i].pc = "done"]
    /\ UNCHANGED <<applied, timelineVars, clockVars, camera, exportProgress, statusText,
                   btnServerDisabled, container, returned>>

----------------------------------------------------------------------------
(* VideoExporter.startServerExport                                         *)

\* variant: finally leaves #btn-server-export disabled
ServerFinallyStartOnly ==
    /\ isExporting' = FALSE
    /\ btnStartDisabled' = FALSE
    /\ UNCHANGED btnServerDisabled

\* finally { ... } of startServerExport
ServerFinally ==
    /\ isExporting' = FALSE
    /\ btnStartDisabled' = FALSE
    /\ btnServerDisabled' = FALSE

\* catch (error) and finally of startServerExport
ServerCatch(i, exps, err) ==
    /\ exportProgress' = R(0)
    /\ statusText' = Status("error", err, 0, 0)
    /\ ServerFinally
    /\ exports' = [exps EXCEPT ![i] = Returned(@, "done")]
    /\ returned' = Outcome(i, exps[i], err)
    /\ UNCHANGED dialogShown

\* the awaited promise is rejected with err (exps already records what the
\* callback did): if it was pending, catch and finally run; a settled
\* promise ignores it
Reject(i, exps, err) ==
    IF exps[i].promise = "pending"
    THEN ServerCatch(i, exps, err)
    ELSE /\ exports' = exps
         /\ UNCHANGED <<uiVars, returned>>

\* click on #btn-server-export
StartServerExport ==
    /\ dialogShown /\ ~btnServerDisabled
    /\ NextId \in ExportIds
    /\ IF isExporting THEN UNCHANGED vars
       ELSE /\ isExporting' = TRUE
            /\ btnStartDisabled' = TRUE
            /\ btnServerDisabled' = TRUE
            /\ exportProgress' = R(0)
            /\ statusText' = Status("starting", NoError, 0, 0)
            /\ exports' = [exports EXCEPT ![NextId] =
                   [@ EXCEPT !.mode = "B", !.pc = "wait_start"]]
            /\ UNCHANGED <<applied, timelineVars, clockVars, camera, dialogShown,
                           container, returned>>

\* POST /export/server/start fails
B_StartFailed(i) ==
    /\ exports[i].mode = "B" /\ exports[i].pc = "wait_start"
    /\ ServerCatch(i, exports, Err("Server start failed", 0))
    /\ UNCHANGED <<applied, timelineVars, clockVars, camera, container>>

\* POST /export/server/start answers with a session id: the polling
\* interval is set and the promise awaited
B_SessionOpened(i) ==
    /\ exports[i].mode = "B" /\ exports[i].pc = "wait_start"
    /\ exports' = [exports EXCEPT ![i].sessionId = SessionId(i),
                                  ![i].pc = "polling",
                                  ![i].interval = TRUE,
                                  ![i].promise = "pending"]
    /\ UNCHANGED <<applied, timelineVars, clockVars, camera, uiVars, container,
                   returned>>

\* the interval callback runs: cancellation check, then the status request
B_PollTick(i) ==
    /\ exports[i].mode = "B" /\ exports[i].interval
    /\ IF ~isExporting
       THEN Reject(i, [exports EXCEPT ![i].interval = FALSE],
                   Err("Cancelled", 0))
       ELSE /\ exports[i].inFlight < MaxInFlight
            /\ exports' = [exports EXCEPT ![i].inFlight = @ + 1]
            /\ UNCHANGED <<uiVars, returned>>
    /\ UNCHANGED <<applied, timelineVars, clockVars, camera, container>>

\* a status request fails
B_StatusFailed(i) ==
    /\ exports[i].mode = "B" /\ exports[i].inFlight > 0
    /\ Reject(i, [exports EXCEPT ![i].inFlight = @ - 1,
                                 ![i].interval = FALSE],
              Err("Status check failed", 0))
    /\ UNCHANGED <<applied, timelineVars, clockVars, camera, container>>

\* variant: the server's error text is dropped for the fallback message
FailedMessageGeneric(text) ==
    Err("Server processing failed", 0)

\* status.error || 'Server processing failed'
FailedMessage(text) ==
    IF text = "" THEN Err("Server processing failed", 0) ELSE Err(text, 0)

\* variant: 'completed' is handled without clearInterval
CompletedPolling(i, exps) ==
    LET e == [exps[i] EXCEPT !.terminalSeen = TRUE,
                             !.downloads = @ + 1, !.hideTimers = @ + 1]
    IN  /\ exportProgress' = R(100)
        /\ statusText' = Status("downloading", NoError, 0, 0)
        /\ IF e.promise = "pending"
           THEN /\ ServerFinally
                /\ exports' = [exps EXCEPT ![i] =
                       [Returned(e, "done") EXCEPT !.interval = e.interval]]
                /\ returned' = Outcome(i, e, NoError)
           ELSE /\ exports' = [exps EXCEPT ![i] = e]
                /\ UNCHANGED <<isExporting, btnStartDisabled,
                               btnServerDisabled, returned>>
        /\ UNCHANGED dialogShown

\* the status 'completed' is handled: the interval is cleared, 100% is
\* reported, the download is triggered, the promise is resolved and the
\* timer that hides the dialog is set; finally runs if the promise was pending
Completed(i, exps) ==
    LET e == [exps[i] EXCEPT !.interval = FALSE, !.terminalSeen = TRUE,
                             !.downloads = @ + 1, !.hideTimers = @ + 1]
    IN  /\ exportProgress' = R(100)
        /\ statusText' = Status("downloading", NoError, 0, 0)
        /\ IF e.promise = "pending"
           THEN /\ ServerFinally
                /\ exports' = [exps EXCEPT ![i] = Returned(e, "done")]
                /\ returned' = Outcome(i, e, NoError)
           ELSE /\ exports' = [exps EXCEPT ![i] = e]
                /\ UNCHANGED <<isExporting, btnStartDisabled,
                               btnServerDisabled, returned>>
        /\ UNCHANGED dialogShown

\* a non-terminal status is handled: updateProgress(progress, message)
Progressed(i, exps, pr, message) ==
    /\ exportProgress' = R(pr)
    /\ statusText' = Status(message, NoError, 0, 0)
    /\ exports' = exps
    /\ UNCHANGED <<isExporting, dialogShown, btnStartDisabled,
                   btnServerDisabled, returned>>

\* the body of a status response is handled
HandleStatus(i, status) ==
    /\ exports[i].mode = "B" /\ exports[i].inFlight > 0
    /\ LET exps == [exports EXCEPT ![i].inFlight = @ - 1] IN
        CASE status.status = "failed" ->
               Reject(i, [exps EXCEPT ![i].interval = FALSE,
                                      ![i].terminalSeen = TRUE],
                      FailedMessage(status.error))
          [] status.status = "completed" -> Completed(i, exps)
          [] OTHER -> Progressed(i, exps, status.progress, status.message)
    /\ UNCHANGED <<applied, timelineVars, clockVars, camera, container>>

\* a status request is answered with the reported status
B_StatusBody(i) == \E status \in StatusBodies : HandleStatus(i, status)

\* the 1 s timer set on completion fires: hideDialog()
B_HideTimer(i) ==
    /\ exports[i].mode = "B" /\ exports[i].hideTimers > 0
    /\ dialogShown' = hideDialog(isExporting)
    /\ exports' = [exports EXCEPT ![i].hideTimers = @ - 1]
    /\ UNCHANGED <<applied, timelineVars, clockVars, camera, isExporting, exportProgress,
                   statusText, btnStartDisabled, btnServerDisabled,
                   container, returned>>

----------------------------------------------------------------------------
(* The user: export dialog                                                 *)

\* what a cancellation finds in progress, recorded for the properties
MarkCancel ==
    [i \in ExportIds |->
        LET e == [exports[i] EXCEPT
                     !.cancelled = @ \/ exports[i].pc \notin {"idle", "done"}]
        IN
        IF e.mode = "A" /\ e.pc \in LoopPcs /\ e.cancelFrame = NoFrame
        THEN [e EXCEPT !.cancelFrame = <<e.frame>>]
        ELSE IF e.mode = "B" /\ e.pc = "polling"
        THEN [e EXCEPT !.cancelSeen = TRUE]
        ELSE e]

\* click on #btn-export: showDialog()
ShowDialog ==
    /\ ~dialogShown
    /\ dialogShown' = TRUE
    /\ exportProgress' = R(0)
    /\ statusText' = Status("ready", NoError, 0, 0)
    /\ UNCHANGED <<applied, timelineVars, clockVars, camera, isExporting,
                   btnStartDisabled, btnServerDisabled, container, exports,
                   returned>>

\* click on #btn-cancel-export
CancelExport ==
    /\ dialogShown
    /\ isExporting' = FALSE
    /\ dialogShown' = hideDialog(FALSE)
    /\ exports' = MarkCancel
    /\ UNCHANGED <<applied, timelineVars, clockVars, camera, exportProgress, statusText,
                   btnStartDisabled, btnServerDisabled, container, returned>>

\* click on #btn-close-dialog, and the answer to confirm() when it is asked
CloseDialog ==
    /\ dialogShown
    /\ \E answer \in BOOLEAN :
        IF isExporting /\ ~answer
        THEN UNCHANGED vars
        ELSE /\ isExporting' = FALSE
             /\ dialogShown' = hideDialog(FALSE)
             /\ exports' = IF isExporting THEN MarkCancel ELSE exports
             /\ UNCHANGED <<applied, timelineVars, clockVars, camera, exportProgress,
                            statusText, btnStartDisabled, btnServerDisabled,
                            container, returned>>

----------------------------------------------------------------------------
(* The user: playback controls (buttons, keyboard, slider)                 *)

exportVars == <<applied, timelineVars, uiVars, container, exports, returned>>

\* #btn-play, or Space while paused
UserPlay == play /\ UNCHANGED exportVars

\* #btn-pause, or Space while playing
UserPause == pause /\ UNCHANGED exportVars

\* #btn-stop, or Home
UserStop == stop /\ UNCHANGED exportVars

\* #progress-slider input
UserSeek ==
    /\ \E pos \in SliderPositions : seekTo(RMul(Rat(pos, 1000), duration))
    /\ UNCHANGED exportVars

\* a requestAnimationFrame callback of the clock that processes a frame
ClockTick == animate(FrameInterval) /\ UNCHANGED exportVars

\* a caller of seekTo(time)
SeekTo == (\E t \in SampleTimes : seekTo(t)) /\ UNCHANGED exportVars

\* a caller of playFromStart()
PlayFromStart == playFromStart /\ UNCHANGED exportVars

\* #btn-step-forward, or ArrowRight
UserStepForward == stepForward /\ UNCHANGED exportVars

\* #btn-step-back, or ArrowLeft
UserStepBackward == stepBackward /\ UNCHANGED exportVars

\* #select-fps change
UserSetFPS == (\E f \in FpsInputs : setFPS(f)) /\ UNCHANGED exportVars

\* #input-duration change
UserSetDuration ==
    (\E d \in DurationInputs : setDuration(d)) /\ UNCHANGED exportVars

\* a caller of setLoop
SetLoop == (\E l \in BOOLEAN : setLoop(l)) /\ UNCHANGED exportVars

\* a requestAnimationFrame callback of the clock, dt after the previous one
Tick(dt) ==
    /\ RLe(RAdd(wall, dt), R(MaxWallSeconds))
    /\ animate(dt)
    /\ UNCHANGED exportVars

----------------------------------------------------------------------------
(* The property panel, the timeline editor and the project controls        *)

editVars == <<applied, isPlaying, clockConfig, tickVars, uiVars, container,
              exports,
              returned>>

\* #btn-add-keyframe: a Keyframe is constructed at the current time from the
\* inputs, added and selected
PanelAddKeyframe ==
    /\ created < MaxKeyframes
    /\ \E in \in PanelInputs :
        LET kf == Object(created + 1,
                         Keyframe(currentTime, in.latitude, in.longitude,
                                  in.height, in.heading, in.pitch, R(0),
                                  in.fov, in.interpolationType))
        IN  /\ keyframes' = addKeyframe(keyframes, kf)
            /\ selectedKeyframe' = Ref(kf.id)
            /\ notified' =
                  <<ManagerCall("addKeyframe", Ref(kf.id),
                                addKeyframeEvents(Ref(kf.id)), "keyframe"),
                    ManagerCall("selectKeyframe", Ref(kf.id),
                                selectKeyframeEvents(Ref(kf.id)),
                                "undefined")>>
    /\ created' = created + 1
    /\ UNCHANGED <<draggedKeyframe, currentTime, camera, editVars>>

\* #btn-update-keyframe: the inputs are assigned to the selected keyframe
PanelUpdateKeyframe ==
    /\ selectedKeyframe # NoKeyframe
    /\ \E in \in PanelInputs :
          keyframes' = updateKeyframe(keyframes, selectedKeyframe,
                                      [in EXCEPT !.roll = R(0)])
    /\ notified' = <<ManagerCall("updateKeyframe", selectedKeyframe,
                                 updateKeyframeEvents(selectedKeyframe),
                                 "undefined")>>
    /\ UNCHANGED <<selectedKeyframe, draggedKeyframe, created, currentTime,
                   camera, editVars>>

\* #btn-delete-keyframe: the selected keyframe is removed
PanelDeleteKeyframe ==
    /\ selectedKeyframe # NoKeyframe
    /\ keyframes' = Without(keyframes, selectedKeyframe)
    /\ selectedKeyframe' =
          SelectionAfterRemove(keyframes, selectedKeyframe, selectedKeyframe)
    /\ notified' =
          <<ManagerCall("removeKeyframe", selectedKeyframe,
                        removeKeyframeEvents(keyframes, selectedKeyframe,
                                             selectedKeyframe),
                        removeKeyframeResult(keyframes, selectedKeyframe))>>
    /\ UNCHANGED <<draggedKeyframe, created, currentTime, camera, editVars>>

\* a caller of removeKeyframe(keyframe), with any Keyframe constructed so far
CallRemoveKeyframe ==
    /\ \E id \in 1..created :
          /\ keyframes' = Without(keyframes, Ref(id))
          /\ selectedKeyframe' =
                SelectionAfterRemove(keyframes, selectedKeyframe, Ref(id))
          /\ notified' =
                <<ManagerCall("removeKeyframe", Ref(id),
                              removeKeyframeEvents(keyframes, selectedKeyframe,
                                                   Ref(id)),
                              removeKeyframeResult(keyframes, Ref(id)))>>
    /\ UNCHANGED <<draggedKeyframe, created, currentTime, camera, editVars>>

\* mousedown on a keyframe of the timeline: it is selected and dragged
MouseDownOnKeyframe ==
    /\ \E i \in DOMAIN keyframes :
          /\ draggedKeyframe' = Ref(keyframes[i].id)
          /\ selectedKeyframe' = Ref(keyframes[i].id)
          /\ notified' =
                <<ManagerCall("selectKeyframe", Ref(keyframes[i].id),
                              selectKeyframeEvents(Ref(keyframes[i].id)),
                              "undefined")>>
    /\ UNCHANGED <<keyframes, created, currentTime, camera, editVars>>

\* mousemove while a keyframe is dragged: its time is updated
MouseMoveDragging ==
    /\ draggedKeyframe # NoKeyframe
    /\ \E time \in DragTimes :
          keyframes' = updateKeyframe(keyframes, draggedKeyframe,
                                      [time |-> time])
    /\ notified' = <<ManagerCall("updateKeyframe", draggedKeyframe,
                                 updateKeyframeEvents(draggedKeyframe),
                                 "undefined")>>
    /\ UNCHANGED <<selectedKeyframe, draggedKeyframe, created, currentTime,
                   camera, editVars>>

\* mouseup
MouseUp ==
    /\ draggedKeyframe # NoKeyframe
    /\ draggedKeyframe' = NoKeyframe
    /\ UNCHANGED <<keyframes, selectedKeyframe, created, notified,
                   currentTime, camera, editVars>>

\* a caller of clear()
ClearTimeline ==
    /\ keyframes' = <<>>
    /\ selectedKeyframe' = NoKeyframe
    /\ notified' = <<ManagerCall("clear", NoKeyframe, clearEvents,
                                 "undefined")>>
    /\ UNCHANGED <<draggedKeyframe, created, currentTime, camera, editVars>>

\* what #btn-save-project writes: JSON.stringify of the duration, the fps
\* and the keyframes
SavedProject ==
    [duration |-> duration, fps |-> fps,
     keyframes |-> exportToJSON(keyframes).keyframes]

\* the documents given to #input-load-project that JSON.parse accepts: the
\* project as saved, one whose keyframes are no list, and one whose list
\* holds the first saved keyframe and null
Documents ==
    {SavedProject,
     [SavedProject EXCEPT !.keyframes = NoArray],
     [SavedProject EXCEPT !.keyframes =
         Array(SubSeq(SavedProject.keyframes.items, 1,
                      IF keyframes = <<>> THEN 0 ELSE 1) \o <<Null>>)]}

\* reader.onload of #input-load-project: importFromJSON, setDuration, setFPS
\* and seekTo(0) in one try block, whose catch alerts
LoadProject(doc) ==
    LET r == importFromJSON(doc, keyframes, created) IN
    /\ r.created <= MaxKeyframes
    /\ keyframes' = r.keyframes
    /\ selectedKeyframe' = NoKeyframe
    /\ created' = r.created
    /\ notified' = importFromJSONCalls(created, r.created)
    /\ IF r.threw
       THEN UNCHANGED <<currentTime, duration, fps, frameInterval, camera,
                        emitted>>
       ELSE /\ duration' = (IF doc.duration # R(0) THEN doc.duration
                                                   ELSE duration)
            /\ fps' = (IF doc.fps # 0 THEN doc.fps ELSE fps)
            /\ frameInterval' = (IF doc.fps # 0 THEN Rat(1000, doc.fps)
                                                ELSE frameInterval)
            /\ currentTime' = RMax(R(0), RMin(duration', R(0)))
            /\ camera' = [pose |-> interpolateAt(r.keyframes, currentTime'),
                          by |-> Pusher("clock", 0, 0)]
            /\ emitted' = Call("seekTo", seekToEvents)
    /\ UNCHANGED <<applied, draggedKeyframe, isPlaying, loop, timing,
                   animationFrameId, scheduled, cameraControls, uiVars,
                   container, exports, returned>>

----------------------------------------------------------------------------
(* Callers of Interpolation                                                *)

\* a call: the function, its arguments and, once it has returned, its
\* result
Application(fn, args, result) == [fn |-> fn, args |-> args, result |-> result]

NotReturned == <<>>

NoApplication == Application("", <<>>, NotReturned)

\* the calls made
Applications ==
    {Application(type, <<t>>, NotReturned) :
        type \in EasingKinds \ {"step"}, t \in EasingTimes("bezier")}
    \cup {Application(type, <<Rat(1, 4)>>, NotReturned) :
        type \in EasingKinds \ {"step", "bezier"}}
    \cup {Application("bezier", <<t, p1, p2, p3, p4>>, NotReturned) :
        t \in {R(0), R(1)}, p1 \in ControlPoints, p2 \in ControlPoints,
        p3 \in ControlPoints, p4 \in ControlPoints}
    \cup UNION {{Application(fn, <<a, b, t, type>>, NotReturned) :
                    t \in EasingTimes(type), fn \in {"interpolate"},
                    a \in LerpValues, b \in LerpValues} :
                type \in EasingKinds}
    \cup UNION {{Application(fn, <<a, b, t, type>>, NotReturned) :
                    t \in EasingTimes(type), fn \in {"interpolateAngle"},
                    a \in Angles, b \in Angles} :
                type \in EasingKinds}

restVars == <<timelineVars, clockVars, camera, uiVars, container, exports,
              returned>>

Returns(result) ==
    /\ applied.result = NotReturned
    /\ applied' = [applied EXCEPT !.result = result]
    /\ UNCHANGED restVars

\* this[type](t) for each function the object has under an easing name
ApplyEasing ==
    /\ applied.fn \in EasingKinds /\ Len(applied.args) = 1
    /\ Returns(Eased(applied.args[1], applied.fn))

\* bezier(t, p1, p2, p3, p4)
ApplyBezier ==
    /\ applied.fn = "bezier" /\ Len(applied.args) = 5
    /\ LET a == applied.args
       IN  Returns(bezier(a[1], a[2], a[3], a[4], a[5]))

\* interpolate(a, b, t, type)
ApplyInterpolate ==
    /\ applied.fn = "interpolate"
    /\ LET a == applied.args
       IN  Returns(interpolate(a[1], a[2], a[3], a[4]))

\* interpolateAngle(start, end, t, type)
ApplyInterpolateAngle ==
    /\ applied.fn = "interpolateAngle"
    /\ LET a == applied.args
       IN  Returns(interpolateAngle(a[1], a[2], a[3], a[4]))

----------------------------------------------------------------------------
(* Specifications                                                          *)

\* the camera pose CesiumManager.initialize sets
InitialCamera ==
    [pose |-> [latitude |-> Rat(356762, 10000),
               longitude |-> Rat(1396503, 10000), height |-> R(1000000),
               heading |-> R(0), pitch |-> R(-90), roll |-> R(0),
               fov |-> R(60)],
     by |-> Pusher("init", 0, 0)]

\* the state after construction, but for the keyframes and the container,
\* with the clock set to duration dur and f frames per second
InitAround(playing, dur, f) ==
    /\ selectedKeyframe = NoKeyframe
    /\ draggedKeyframe = NoKeyframe
    /\ created = Len(keyframes)
    /\ notified = <<>>
    /\ isPlaying = playing
    /\ currentTime = R(0)
    /\ duration = dur
    /\ fps = f
    /\ frameInterval = Rat(1000, f)
    /\ loop = FALSE
    /\ elapsed = R(0)
    /\ finished = 0
    /\ wall = R(0)
    /\ wide = FALSE
    /\ animationFrameId = playing
    /\ scheduled = (IF playing THEN 1 ELSE 0)
    /\ cameraControls = ~playing
    /\ emitted = (IF playing THEN Call("play", <<"play">>) ELSE NoCall)
    /\ camera = InitialCamera
    /\ isExporting = FALSE
    /\ exportProgress = R(0)
    /\ statusText = Status("", NoError, 0, 0)
    /\ dialogShown = FALSE
    /\ btnStartDisabled = FALSE
    /\ btnServerDisabled = FALSE
    /\ exports = [i \in ExportIds |-> IdleExport]
    /\ returned = NoOutcome

Init ==
    /\ keyframes \in Timelines
    /\ applied = NoApplication
    /\ \E dur \in Durations, f \in ClockFpsChoices : InitAround(FALSE, dur, f)
    /\ \E st \in InitialStyles : container = Style(st, st)

ExportA(i) ==
    \/ A_StartFailed(i)
    \/ A_SessionOpened(i)
    \/ A_Rendered(i)
    \/ A_BlobReady(i)
    \/ A_UploadResponse(i)
    \/ A_NextFrame(i)
    \/ A_FinishFailed(i)
    \/ A_VideoReceived(i)
    \/ A_CompletionTimer(i)

ExportB(i) ==
    \/ B_StartFailed(i)
    \/ B_SessionOpened(i)
    \/ B_PollTick(i)
    \/ B_StatusFailed(i)
    \/ B_StatusBody(i)
    \/ B_HideTimer(i)

Dialog ==
    \/ ShowDialog
    \/ StartExport
    \/ StartServerExport
    \/ CancelExport
    \/ CloseDialog

Playback ==
    \/ UserPlay
    \/ UserPause
    \/ UserStop
    \/ UserSeek
    \/ ClockTick

\* the export dialog and the exports it starts, the playback controls idle
\* and the container styled by the page
Next ==
    \/ Dialog
    \/ \E i \in ExportIds : ExportA(i) \/ ExportB(i)

InitExports == Init /\ container = Style(<<100, "%">>, <<100, "%">>)

SpecExports == InitExports /\ [][Next]_vars

\* the same, where every fetch, toBlob, animation frame and timer a
\* client-capture export waits for resolves or fires eventually
SpecExportsFair ==
    SpecExports /\ \A i \in ExportIds : WF_vars(ExportA(i))

\* one client-capture export while the user operates the playback controls
NextPlayback ==
    \/ ShowDialog
    \/ (Started = {} /\ StartExport)
    \/ CancelExport
    \/ CloseDialog
    \/ Playback
    \/ ExportA(1)

SpecPlayback == Init /\ [][NextPlayback]_vars

\* server exports only, one fewer than the dialog is given above
ServerRuns == MaxExports - 1

NextServer ==
    \/ ShowDialog
    \/ (NextId <= ServerRuns /\ StartServerExport)
    \/ CancelExport
    \/ CloseDialog
    \/ \E i \in ExportIds : ExportB(i)

SpecServer == InitExports /\ [][NextServer]_vars

\* the playback controls and the timeline settings, no export
NextClock ==
    \/ UserPlay
    \/ UserPause
    \/ UserStop
    \/ PlayFromStart
    \/ UserSeek
    \/ UserStepForward
    \/ UserStepBackward
    \/ UserSetFPS
    \/ UserSetDuration
    \/ SetLoop
    \/ \E dt \in ClockSpacings : Tick(dt)

SpecClock == InitExports /\ [][NextClock]_vars

\* the clock scenario: play() has been called at time 0 with loop off
InitTicks ==
    /\ keyframes \in Timelines
    /\ applied = NoApplication
    /\ InitAround(TRUE, ScenarioClock.duration, ScenarioClock.fps)
    /\ container = Style(<<100, "%">>, <<100, "%">>)

\* only requestAnimationFrame callbacks follow
NextTicks == \E dt \in ScenarioSpacings : Tick(dt)

SpecTicks == InitTicks /\ [][NextTicks]_vars

\* the collection as the KeyframeManager constructs it
InitTimeline ==
    /\ keyframes = <<>>
    /\ applied = NoApplication
    /\ \E dur \in Durations, f \in ClockFpsChoices : InitAround(FALSE, dur, f)
    /\ container = Style(<<100, "%">>, <<100, "%">>)

\* editing the timeline: property panel, timeline editor and project load,
\* with the clock at rest
NextTimeline ==
    \/ PanelAddKeyframe
    \/ PanelUpdateKeyframe
    \/ PanelDeleteKeyframe
    \/ CallRemoveKeyframe
    \/ MouseDownOnKeyframe
    \/ MouseMoveDragging
    \/ MouseUp
    \/ ClearTimeline
    \/ \E doc \in Documents : LoadProject(doc)

SpecTimeline == InitTimeline /\ [][NextTimeline]_vars

\* sampling: a timeline of the manager, the clock as constructed
InitSampling ==
    /\ keyframes \in SampleTimelines
    /\ applied = NoApplication
    /\ InitAround(FALSE, DefaultClock.duration, DefaultClock.fps)
    /\ container = Style(<<100, "%">>, <<100, "%">>)

SpecSampling == InitSampling /\ [][SeekTo]_vars

\* the functions of Interpolation applied to arguments, the rest at rest
NextInterpolation ==
    \/ ApplyEasing
    \/ ApplyBezier
    \/ ApplyInterpolate
    \/ ApplyInterpolateAngle

\* the objects as constructed, and a call of a function of Interpolation
InitInterpolation ==
    /\ keyframes = <<>>
    /\ applied \in Applications
    /\ InitAround(FALSE, DefaultClock.duration, DefaultClock.fps)
    /\ container = Style(<<100, "%">>, <<100, "%">>)

SpecInterpolation == InitInterpolation /\ [][NextInterpolation]_vars

----------------------------------------------------------------------------
(* Properties                                                              *)

\* invocation i has been started and its function has not returned
Unterminated(i) ==
    \/ exports[i].mode = "A" /\ exports[i].pc \in LoopPcs \cup {"wait_start"}
    \/ exports[i].mode = "B" /\ exports[i].pc \in {"wait_start", "polling"}

\* startExport is running: it has not returned and not reported success
ARunning(i) ==
    /\ exports[i].mode = "A"
    /\ exports[i].pc \in LoopPcs \cup {"wait_start", "wait_finish"}

\* C1: at most one export, of either mode, is in flight at any time: there are
\* never two exports whose frame loop or poll loop has not terminated (so a
\* start call made while an earlier export has not terminated starts nothing).
C1_AtMostOneInFlight ==
    Cardinality({i \in ExportIds : Unterminated(i)}) <= 1

\* the upload requests a client-capture export of totalFrames frames is
\* to send: frame k with the session id of the start call, the renderer
\* having last been given the export's pose for frame k
ExpectedUploads(i) ==
    [k \in 1..exports[i].totalFrames |->
        [sessionId |-> SessionId(i), frameIndex |-> k - 1,
         lastPush |-> FramePush(i, exports[i], k - 1)]]

\* C2: a client-capture export that was neither cancelled nor failed has,
\* when its loop is over, sent exactly totalFrames = ceil(duration * fps)
\* uploads, with frame indices 0, 1, ..., totalFrames - 1 in this order and
\* the session id of the start call, the last pose pushed to the renderer
\* before the upload of frame k being the timeline sampled at k / fps, pushed
\* by the export.
C2_UploadsInOrder ==
    \A i \in ExportIds :
        (/\ exports[i].mode = "A"
         /\ exports[i].pc = "wait_finish"
         /\ exports[i].cancelFrame = NoFrame)
        => /\ exports[i].totalFrames = TotalFrames(duration, exports[i].efps)
           /\ Len(exports[i].uploads) = exports[i].totalFrames
           /\ \A k \in 1..Len(exports[i].uploads) :
                exports[i].uploads[k] = ExpectedUploads(i)[k]

\* C3: on every exit path of a client-capture export (success, cancellation,
\* failure at any step, a failed start call included) the container has the
\* width and height it had immediately before the export started.
C3_SurfaceRestored ==
    [][\A i \in ExportIds :
        (ARunning(i) /\ exports'[i].pc \in {"timer", "done"})
        => container' = exports[i].preStyle]_vars

\* C4: once the user has cancelled during the frame loop of a client-capture
\* export, the export does not get past its loop and no upload with a frame
\* index greater than that of the frame in progress at the cancel is sent.
C4_CancelStopsUploads ==
    \A i \in ExportIds :
        (exports[i].mode = "A" /\ exports[i].cancelFrame # NoFrame)
        => /\ exports[i].pc \in LoopPcs
           /\ \A k \in 1..Len(exports[i].uploads) :
                exports[i].uploads[k].frameIndex <= exports[i].cancelFrame[1]

\* C5: when a client-capture export that was started with the clock playing
\* and had paused it fails or is cancelled in its frame loop, the clock is
\* playing again when the export has returned.
C5_ClockResumedOnFailure ==
    [][\A i \in ExportIds :
        (/\ exports[i].mode = "A"
         /\ exports[i].pc \in LoopPcs
         /\ exports[i].prePlaying
         /\ exports[i].wasPlaying
         /\ exports'[i].pc = "done")
        => isPlaying']_vars

\* the step in which the frame loop of invocation i ends with every frame sent
LoopCompletes(i) ==
    /\ exports[i].mode = "A"
    /\ exports[i].pc = "wait_gc"
    /\ exports'[i].pc = "wait_finish"

\* C6, as stated: after the frame loop has completed, currentTime and
\* isPlaying have the values they had before the export started (for an
\* export during which nothing but the export changed the play-state: the
\* clock the export found is as it was at the start, and at the loop's end
\* it is paused).
C6_ClockRestored ==
    [][\A i \in ExportIds :
        (/\ LoopCompletes(i)
         /\ exports[i].prePlaying = exports[i].wasPlaying
         /\ ~isPlaying)
        => /\ currentTime' = exports[i].preTime
           /\ isPlaying' = exports[i].prePlaying]_vars

\* C6, amended: after the frame loop has completed, currentTime is 0, and
\* the clock is playing if the export had paused it; otherwise its play-state
\* is as the loop's end found it.
C6_ClockReset ==
    [][\A i \in ExportIds :
        LoopCompletes(i)
        => /\ currentTime' = R(0)
           /\ isPlaying' = (exports[i].wasPlaying \/ isPlaying)]_vars

\* the loop of an export that started at a time other than 0 with the clock
\* playing has completed
C6_Witness ==
    /\ exports[1].pc = "wait_finish"
    /\ exports[1].preTime # R(0)
    /\ exports[1].wasPlaying
    /\ currentTime = R(0)
    /\ isPlaying

\* C7: client capture is fail-fast with no retry: a start call that failed
\* is followed by no upload; when the capture of frame k failed, the uploads
\* sent are those of frames 0..k-1, once each; when the upload of frame k
\* failed, they are those of frames 0..k, once each; and in each case no
\* finish request was sent.
C7_FailFast ==
    returned.mode = "A" =>
        /\ returned.error.msg = "server connection error"
           => returned.uploads = <<>> /\ returned.finishSent = 0
        /\ returned.error.msg = "Frame capture failed"
           => /\ Len(returned.uploads) = returned.frame
              /\ \A k \in 1..Len(returned.uploads) :
                    returned.uploads[k].frameIndex = k - 1
              /\ returned.finishSent = 0
        /\ returned.error.msg = "Upload failed at frame"
           => /\ returned.error.n = returned.frame
              /\ Len(returned.uploads) = returned.frame + 1
              /\ \A k \in 1..Len(returned.uploads) :
                    returned.uploads[k].frameIndex = k - 1
              /\ returned.finishSent = 0

\* the upload of frame 1 failed after frame 0 had been uploaded
C7_Witness ==
    /\ returned.mode = "A"
    /\ returned.error = Err("Upload failed at frame", 1)
    /\ Len(returned.uploads) = 2
    /\ exports[1].pc = "done"

\* startServerExport is running: it has not returned
BRunning(i) ==
    /\ exports[i].mode = "B"
    /\ exports[i].pc \in {"wait_start", "polling"}

\* C8: however a server export ends (completed, cancelled, start request
\* failed, status check failed, failure reported by the server), when it has
\* returned the exporting flag is cleared and both start buttons are enabled.
C8_ServerExportCleansUp ==
    [][\A i \in ExportIds :
        (BRunning(i) /\ exports'[i].pc = "done")
        => /\ ~isExporting'
           /\ ~btnStartDisabled'
           /\ ~btnServerDisabled']_vars

\* a server export the user cancelled while it was polling has returned
C8_Witness ==
    /\ returned.mode = "B"
    /\ returned.error = Err("Cancelled", 0)
    /\ \E i \in ExportIds : exports[i].mode = "B" /\ exports[i].pc = "done"
    /\ ~isExporting /\ ~btnStartDisabled /\ ~btnServerDisabled

\* C9: once the user has cancelled a server export that is polling, no
\* download is triggered for it, and no status request is issued for it
\* while the flag is cleared.
C9_CancelStopsPolling ==
    [][\A i \in ExportIds :
        exports[i].cancelSeen
        => /\ exports'[i].downloads = exports[i].downloads
           /\ ~isExporting => exports'[i].inFlight <= exports[i].inFlight]_vars

\* C10: a server export polls until a terminal status: once a response
\* 'completed' or 'failed' has been handled the interval is cleared and no
\* status request is issued; handling 'completed' triggers one download and
\* reports 100; handling any other status that is not 'failed' sets the
\* progress and the status text to the values the server reported.
C10_PollUntilTerminal ==
    [][\A i \in ExportIds :
        /\ exports'[i].terminalSeen => ~exports'[i].interval
        /\ exports[i].terminalSeen
           => exports'[i].inFlight <= exports[i].inFlight
        /\ exports'[i].inFlight < exports[i].inFlight
           => \A status \in StatusBodies :
                HandleStatus(i, status)
                => CASE status.status = "completed" ->
                          /\ exports'[i].terminalSeen
                          /\ exports'[i].downloads = exports[i].downloads + 1
                          /\ exportProgress' = R(100)
                     [] status.status = "failed" ->
                          exports'[i].terminalSeen
                     [] OTHER ->
                          /\ exportProgress' = R(status.progress)
                          /\ statusText'
                                = Status(status.message, NoError, 0, 0)
                          /\ exports'[i].terminalSeen
                                = exports[i].terminalSeen]_vars

\* 'completed' has been handled while another status request of the same
\* export was still in flight: the download is triggered, 100 is reported and
\* the interval is cleared
C10_Witness ==
    \E i \in ExportIds :
        /\ exports[i].mode = "B"
        /\ exports[i].terminalSeen
        /\ exports[i].downloads = 1
        /\ exports[i].inFlight > 0
        /\ ~exports[i].interval
        /\ exportProgress = R(100)

\* C11: when the response to a status request of a running server export
\* reports 'failed' with an error text, the export returns with an error
\* whose message is that text, the text is what the dialog shows behind the
\* error prefix, progress is reset to 0, the interval is cleared and no
\* download is triggered.
C11_FailedSurfacesServerText ==
    [][\A i \in ExportIds :
        (BRunning(i) /\ exports'[i].inFlight < exports[i].inFlight)
        => \A text \in ServerErrors \ {""} :
             HandleStatus(i, StatusBody("failed", 0, "", text))
             => /\ exports'[i].pc = "done"
                /\ returned'.mode = "B"
                /\ returned'.error = Err(text, 0)
                /\ statusText' = Status("error", Err(text, 0), 0, 0)
                /\ exportProgress' = R(0)
                /\ ~exports'[i].interval
                /\ exports'[i].downloads = exports[i].downloads]_vars

\* a server export has returned with the error text the server reported, and
\* nothing was downloaded
C11_Witness ==
    /\ returned.mode = "B"
    /\ returned.error = Err("ffmpeg exited with code 1", 0)
    /\ statusText = Status("error", Err("ffmpeg exited with code 1", 0), 0, 0)
    /\ \E i \in ExportIds :
          /\ exports[i].mode = "B" /\ exports[i].pc = "done"
          /\ exports[i].downloads = 0

\* C12: whatever play, pause, stop, seek, stepForward, stepBackward, setFPS,
\* setDuration, setLoop and ticks have happened, 0 <= currentTime <= duration.
C12_TimeWithinDuration ==
    RLe(R(0), currentTime) /\ RLe(currentTime, duration)

\* C13 as stated: with fps 30, duration 2 and loop off, playing from 0, once
\* the calls of animate() cover at least 2 seconds, whatever their spacing,
\* currentTime is exactly 2 and exactly one 'finished' event has been emitted.
C13_AnySpacing ==
    RLe(duration, wall) => (currentTime = duration /\ finished = 1)

\* C13 amended: with fps 30, duration 2 and loop off, playing from 0, once the
\* calls of animate() cover at least 2 seconds and no two of them were more
\* than one frame interval apart, currentTime is exactly 2, the clock has
\* stopped and exactly one 'finished' event has been emitted; at no time is
\* currentTime above 2 or a second 'finished' emitted.
C13_FinishesAtDuration ==
    /\ RLe(currentTime, duration) /\ finished <= 1
    /\ (RLe(duration, wall) /\ ~wide)
       => (currentTime = duration /\ finished = 1 /\ ~isPlaying)

\* callbacks at most one frame interval apart, some of them closer, have
\* covered 2 seconds and the clock has finished
C13_Witness ==
    /\ RLe(duration, wall) /\ ~wide
    /\ currentTime = R(2) /\ finished = 1 /\ ~isPlaying

IdsOf(kfs) == {kfs[i].id : i \in DOMAIN kfs}

\* before the step, the object a stood before the object b in the collection;
\* objects the step inserts count as behind those that were there, in the
\* order of their construction
WasBefore(a, b) ==
    \/ \E p, q \in DOMAIN keyframes :
          p < q /\ keyframes[p].id = a /\ keyframes[q].id = b
    \/ a \in IdsOf(keyframes) /\ b \notin IdsOf(keyframes)
    \/ a \notin IdsOf(keyframes) /\ b \notin IdsOf(keyframes) /\ a < b

\* C15 as stated: the collection is sorted ascending by time in every
\* reachable state, and keyframes with equal time are in the order in which
\* they were inserted.
C15_SortedInsertionOrder ==
    /\ Sorted(keyframes)
    /\ \A i, j \in DOMAIN keyframes :
          (i < j /\ keyframes[i].time = keyframes[j].time)
          => keyframes[i].id < keyframes[j].id

\* C15 amended: after every operation the collection is sorted ascending by
\* time (it is empty at first), and the operation leaves keyframes with equal
\* time in the relative order they had in the collection before it;
\* keyframes it inserts come after those already there, in the order of
\* their insertion.
C15_SortedStable ==
    [][keyframes' # keyframes
       => /\ Sorted(keyframes')
          /\ \A i, j \in DOMAIN keyframes' :
               (i < j /\ keyframes'[i].time = keyframes'[j].time)
               => ~WasBefore(keyframes'[j].id, keyframes'[i].id)]_vars

\* a keyframe has been moved to the time of one inserted after it and stands
\* behind it
C15_Witness ==
    \E i, j \in DOMAIN keyframes :
        /\ i < j
        /\ keyframes[i].time = keyframes[j].time
        /\ keyframes[i].id > keyframes[j].id

Sampled == camera.by = Pusher("clock", 0, 0)

\* C17 as stated: with no keyframes the sample is the default pose; with one
\* keyframe it is that keyframe's pose at every time; with several, a time
\* before the first keyframe gives the first one's pose, a time after the
\* last gives the last one's, and the time of a keyframe gives that
\* keyframe's pose.
C17_EdgeCases ==
    Sampled
    => LET n == Len(keyframes)
           t == currentTime
       IN  /\ n = 0 => camera.pose = DefaultPose
           /\ n = 1 => camera.pose = PoseOf(keyframes[1])
           /\ (n > 1 /\ RLt(t, keyframes[1].time))
              => camera.pose = PoseOf(keyframes[1])
           /\ (n > 1 /\ RLt(keyframes[n].time, t))
              => camera.pose = PoseOf(keyframes[n])
           /\ \A i \in 1..n :
                 (n > 1 /\ t = keyframes[i].time)
                 => camera.pose = PoseOf(keyframes[i])

\* C17 amended: as above, but the time of a keyframe gives the pose of the
\* first keyframe of the collection that has this time.
C17_EdgeCasesFirstOfTies ==
    Sampled
    => LET n == Len(keyframes)
           t == currentTime
       IN  /\ n = 0 => camera.pose = DefaultPose
           /\ n = 1 => camera.pose = PoseOf(keyframes[1])
           /\ (n > 1 /\ RLt(t, keyframes[1].time))
              => camera.pose = PoseOf(keyframes[1])
           /\ (n > 1 /\ RLt(keyframes[n].time, t))
              => camera.pose = PoseOf(keyframes[n])
           /\ \A i \in 1..n :
                 (/\ n > 1
                  /\ t = keyframes[i].time
                  /\ \A j \in 1..(i - 1) : keyframes[j].time # t)
                 => camera.pose = PoseOf(keyframes[i])

\* the time of two keyframes with different poses has been sampled, and the
\* sample is the pose of the first one
C17_Witness ==
    /\ Sampled
    /\ \E i \in 1..(Len(keyframes) - 1) :
          /\ keyframes[i].time = currentTime
          /\ keyframes[i + 1].time = currentTime
          /\ PoseOf(keyframes[i]) # PoseOf(keyframes[i + 1])
          /\ \A j \in 1..(i - 1) : keyframes[j].time # currentTime
          /\ camera.pose = PoseOf(keyframes[i])

\* C18: a sample at a time strictly between two consecutive keyframes with
\* different times is made of every field interpolated from the keyframe
\* before to the keyframe after at u = (t - before.time) / (after.time -
\* before.time), eased as the keyframe before says (angles along the shorter
\* arc); keyframes at 0 (height 500, linear) and 10 (height 1000) give
\* height 750 at 5.
C18_SegmentInterpolation ==
    Sampled
    => /\ \A i \in 1..(Len(keyframes) - 1) :
            LET b == keyframes[i]
                a == keyframes[i + 1]
                u == RDiv(RSub(currentTime, b.time), RSub(a.time, b.time))
                e == Eased(u, b.interpolationType)
                Mix(x, y) == RAdd(x, RMul(RSub(y, x), e))
            IN  (RLt(b.time, currentTime) /\ RLt(currentTime, a.time))
                => /\ camera.pose.latitude = Mix(b.latitude, a.latitude)
                   /\ camera.pose.longitude = Mix(b.longitude, a.longitude)
                   /\ camera.pose.height = Mix(b.height, a.height)
                   /\ camera.pose.fov = Mix(b.fov, a.fov)
                   /\ camera.pose.heading
                        = interpolateAngle(b.heading, a.heading, u,
                                           b.interpolationType)
                   /\ camera.pose.pitch
                        = interpolateAngle(b.pitch, a.pitch, u,
                                           b.interpolationType)
                   /\ camera.pose.roll
                        = interpolateAngle(b.roll, a.roll, u,
                                           b.interpolationType)
       /\ (/\ Len(keyframes) = 2
           /\ keyframes[1].time = R(0) /\ keyframes[1].height = R(500)
           /\ keyframes[1].interpolationType = "linear"
           /\ keyframes[2].time = R(10) /\ keyframes[2].height = R(1000)
           /\ currentTime = R(5))
          => camera.pose.height = R(750)

\* keyframes at 0 (height 500, linear) and 10 (height 1000, another easing)
\* have been sampled at 5: the height is 750
C18_Witness ==
    /\ Sampled
    /\ Len(keyframes) = 2
    /\ keyframes[1].time = R(0) /\ keyframes[1].height = R(500)
    /\ keyframes[1].interpolationType = "linear"
    /\ keyframes[2].time = R(10) /\ keyframes[2].height = R(1000)
    /\ keyframes[2].interpolationType = "easeIn"
    /\ currentTime = R(5)
    /\ camera.pose.height = R(750)

\* C19: importing what exportToJSON returns for the collection yields a
\* collection with as many keyframes, in the same order, each equal to the
\* original in time, latitude, longitude, height, heading, pitch, roll, fov
\* and interpolationType.
C19_RoundTrip ==
    [][(created' > created /\ LoadProject(SavedProject))
       => /\ Len(keyframes') = Len(keyframes)
          /\ \A i \in DOMAIN keyframes :
                toJSON(keyframes'[i]) = toJSON(keyframes[i])]_vars

\* C20: a project load whose import throws leaves the collection and the
\* selection as they were.
C20_FailedImportLeavesTimeline ==
    [][\A doc \in Documents :
        (importFromJSON(doc, keyframes, created).threw /\ LoadProject(doc))
        => /\ keyframes' = keyframes
           /\ selectedKeyframe' = selectedKeyframe]_vars

\* the call of the function named in fns has returned
HasReturned(fns) == applied.fn \in fns /\ applied.result # NotReturned

\* C21: every easing function (linear, easeIn, easeOut, easeInOut, and bezier
\* with any control points) returns 0 at t = 0 and 1 at t = 1, and so
\* interpolate(a, b, 0, type) is a and interpolate(a, b, 1, type) is b, for
\* every type.
C21_EndpointInvariant ==
    /\ HasReturned(EasingKinds)
        => /\ applied.args[1] = R(0) => applied.result = R(0)
           /\ applied.args[1] = R(1) => applied.result = R(1)
    /\ HasReturned({"interpolate"})
        => /\ applied.args[3] = R(0) => applied.result = applied.args[1]
           /\ applied.args[3] = R(1) => applied.result = applied.args[2]

\* bezier has returned 1 at t = 1 for control points outside [0, 1], and
\* interpolate is called with the end of a bezier segment
C21_Witness ==
    \/ /\ HasReturned({"bezier"})
       /\ applied.args = <<R(1), R(2), Rat(-1, 2), Rat(42, 100), R(2)>>
       /\ applied.result = R(1)
    \/ /\ HasReturned({"interpolate"})
       /\ applied.args = <<R(-3), R(1000), R(1), "bezier">>
       /\ applied.result = R(1000)

\* C22: whatever the two angles (inside or outside [-180, 180], or exactly
\* -180 or 180) and whatever t in [0, 1], interpolateAngle returns an angle
\* greater than -180 and at most 180.
C22_HalfOpenRange ==
    HasReturned({"interpolateAngle"})
        => /\ RLt(R(-180), applied.result)
           /\ RLe(applied.result, R(180))

\* the angles a and b are congruent modulo 360
Congruent(a, b) == RMod(RAdd(RSub(a, b), R(3600)), R(360)) = R(0)

\* C23: interpolateAngle follows the shortest arc.  The difference it applies
\* between the normalized angles is at most 180 in magnitude; with linear
\* easing the angle halfway from 350 to 10 is 0; and the result is congruent
\* modulo 360 to the first angle at t = 0 and to the second at t = 1.
C23_ShortestArc ==
    HasReturned({"interpolateAngle"})
        => LET a == applied.args
               s == normalizeAngle(a[1])
               e == normalizeAngle(a[2])
           IN  /\ RLe(RAbs(shortestPath(s, e)), R(180))
               /\ a[3] = R(0) => Congruent(applied.result, a[1])
               /\ a[3] = R(1) => Congruent(applied.result, a[2])
               /\ a = <<R(350), R(10), Rat(1, 2), "linear">>
                    => applied.result = R(0)
               /\ a = <<R(170), R(-170), Rat(1, 2), "linear">>
                    => applied.result = R(180)

\* the angle halfway from 350 to 10 has been computed
C23_Witness ==
    /\ HasReturned({"interpolateAngle"})
    /\ applied.args = <<R(350), R(10), Rat(1, 2), "linear">>
    /\ applied.result = R(0)

\* C24: the tick loop of the clock and the frame loop of a client-capture
\* export exclude each other: while such an export is between its resize and
\* the end of its frame loop the clock is not playing and has no callback
\* pending, whatever the user does meanwhile.
C24_ClockAndExportExclusive ==
    \A i \in ExportIds :
        (exports[i].mode = "A" /\ exports[i].pc \in LoopPcs)
        => ~isPlaying /\ ~animationFrameId

\* how many times event ev occurs in the sequence events
Count(events, ev) == Cardinality({k \in DOMAIN events : events[k] = ev})

\* animate() processes a frame that takes the time to the duration or beyond
ReachesEnd(dt) ==
    /\ isPlaying
    /\ RLe(FrameInterval, RAdd(elapsed, dt))
    /\ RLe(duration, RAdd(currentTime, FrameInterval))
    /\ emitted'.by = "animate"
    /\ Tick(dt)

\* C25: when a tick takes currentTime to the duration or beyond with loop off,
\* currentTime becomes exactly the duration, the clock is no longer playing,
\* 'timeUpdate' and after it exactly one 'finished' are emitted, no
\* 'frameUpdate' is emitted, and no further tick is requested.
C25_FinishAtEnd ==
    [][\A dt \in ClockSpacings :
        (ReachesEnd(dt) /\ ~loop)
        => LET ev == emitted'.events IN
           /\ currentTime' = duration
           /\ ~isPlaying'
           /\ ~animationFrameId'
           /\ Count(ev, "finished") = 1
           /\ Count(ev, "frameUpdate") = 0
           /\ \E j, k \in DOMAIN ev :
                j < k /\ ev[j] = "timeUpdate" /\ ev[k] = "finished"
           /\ \A k \in DOMAIN ev : ev[k] = "timeUpdate" => k < Len(ev)
           /\ ev[Len(ev)] = "finished"]_vars

\* the clock has played to the end of the timeline and finished
C25_Witness ==
    /\ emitted = Call("animate", <<"pause", "timeUpdate", "finished">>)
    /\ currentTime = duration
    /\ ~isPlaying /\ ~animationFrameId /\ ~loop
    /\ finished = 1

\* C26: a tick that finds at least one frame interval elapsed since the last
\* processed tick advances currentTime by exactly one frame interval, however
\* many intervals have elapsed, and carries the elapsed time modulo the frame
\* interval; a tick that finds less elapsed leaves currentTime unchanged.  So
\* during uninterrupted playback from 0, currentTime is a multiple of the
\* frame interval until it is clamped.
C26_OneIntervalPerTick ==
    [][\A dt \in ScenarioSpacings :
        Tick(dt)
        => LET e == RAdd(elapsed, dt)
               t == RAdd(currentTime, FrameInterval)
           IN  IF RLe(FrameInterval, e)
               THEN /\ elapsed' = RSub(e, RMul(R(RFloor(RDiv(e, FrameInterval))),
                                               FrameInterval))
                    /\ RLt(elapsed', FrameInterval)
                    /\ IF RLt(t, duration)
                       THEN /\ currentTime' = t
                            /\ RMod(currentTime', FrameInterval) = R(0)
                            /\ currentTime' = Rat(RFloor(RMul(currentTime',
                                                             R(fps))), fps)
                       ELSE currentTime' = duration
               ELSE /\ currentTime' = currentTime
                    /\ elapsed' = e]_vars

\* a tick three frame intervals after play() has advanced the time by one
C26_Witness ==
    /\ isPlaying
    /\ wall = Rat(1, 10)
    /\ wide
    /\ currentTime = Rat(1, 30)
    /\ elapsed = R(0)

\* the state of the clock and of what it drives
clockState == <<isPlaying, currentTime, clockConfig, timing,
                animationFrameId, scheduled, cameraControls, camera>>

\* C27: play() when the clock is playing and pause() when it is not change
\* nothing, emit nothing and neither request nor cancel a callback.
\* Otherwise play() sets isPlaying and emits one 'play' (and a callback is
\* pending), and pause() clears isPlaying, cancels the pending callback and
\* emits one 'pause'.
C27_GuardedPlayPause ==
    [][/\ UserPlay
          => IF isPlaying
             THEN UNCHANGED clockState /\ emitted'.events = <<>>
             ELSE /\ isPlaying' /\ animationFrameId'
                  /\ emitted'.events = <<"play">>
                  /\ UNCHANGED <<currentTime, clockConfig, camera>>
       /\ UserPause
          => IF ~isPlaying
             THEN UNCHANGED clockState /\ emitted'.events = <<>>
             ELSE /\ ~isPlaying' /\ ~animationFrameId'
                  /\ emitted'.events = <<"pause">>
                  /\ UNCHANGED <<currentTime, clockConfig, timing, camera>>
      ]_vars

\* play() has been called on a clock that was playing and had advanced
C27_Witness ==
    /\ emitted = Call("play", <<>>)
    /\ isPlaying /\ animationFrameId
    /\ RLt(R(0), currentTime)
    /\ RLt(R(0), wall)

\* C28: stop() does what pause() followed by seekTo(0) followed by the
\* emission of 'stop' does: from every state of the clock it ends in the
\* same state (not playing, no callback pending, currentTime 0, the pose
\* sampled at 0 pushed) and emits the same events in the same order.
C28_StopIsPauseSeekStop ==
    [][UserStop
        => /\ ~isPlaying'
           /\ ~animationFrameId'
           /\ currentTime' = ClampTime(R(0))
           /\ camera' = updateCamera(ClampTime(R(0)))
           /\ UNCHANGED <<clockConfig, timing>>
           /\ emitted'.events
                = pauseEvents(isPlaying) \o seekToEvents \o <<"stop">>]_vars

\* a call of seekTo(time) by the slider or by a step, with the time asked for
SeekStep(time) ==
    /\ currentTime' = ClampTime(time)
    /\ \/ UserSeek /\ \E pos \in SliderPositions :
                        time = RMul(Rat(pos, 1000), duration)
       \/ UserStepForward /\ time = RAdd(currentTime, Rat(1, fps))
       \/ UserStepBackward /\ time = RSub(currentTime, Rat(1, fps))

\* the times a seek can ask for in a state
SeekTargets ==
    {RMul(Rat(pos, 1000), duration) : pos \in SliderPositions}
        \cup {RAdd(currentTime, Rat(1, fps)), RSub(currentTime, Rat(1, fps))}

\* C29: seekTo(time), whether the clock is playing or not, sets currentTime
\* to time clamped into [0, duration], pushes the pose sampled at that time
\* to the renderer, emits 'timeUpdate' and leaves isPlaying, loop, fps and
\* duration unchanged; stepForward at currentTime = duration and stepBackward
\* at currentTime = 0 leave currentTime unchanged.
C29_SeekClamps ==
    [][emitted'.by = "seekTo" =>
       /\ \A time \in SeekTargets :
            SeekStep(time)
            => /\ currentTime' = (IF RLt(time, R(0)) THEN R(0)
                                  ELSE IF RLt(duration, time) THEN duration
                                  ELSE time)
               /\ camera'.pose = interpolateAt(keyframes, currentTime')
               /\ emitted'.events = <<"timeUpdate">>
               /\ UNCHANGED <<isPlaying, loop, fps, duration>>
       /\ (currentTime = duration /\ UserStepForward)
            => currentTime' = currentTime
       /\ (currentTime = R(0) /\ UserStepBackward)
            => currentTime' = currentTime]_vars

\* a step forward at the end of the timeline, while the clock is playing
C29_Witness ==
    /\ emitted = Call("seekTo", <<"timeUpdate">>)
    /\ isPlaying
    /\ currentTime = duration
    /\ camera.pose = interpolateAt(keyframes, duration)

\* C30: setFPS and setDuration change the configuration only (fps and the
\* frame interval, or the duration): currentTime and isPlaying stay as they
\* are, and a tick processed afterwards advances the time by the frame
\* interval of the fps set last, one second divided by it.
C30_ConfigurationOnly ==
    [][/\ emitted'.by = "setFPS"
          => /\ UNCHANGED <<isPlaying, currentTime, duration, loop, timing,
                            animationFrameId, scheduled, cameraControls, camera>>
             /\ frameInterval' = Rat(1000, fps')
       /\ emitted'.by = "setDuration"
          => UNCHANGED <<isPlaying, currentTime, fps, frameInterval, loop,
                         timing, animationFrameId, scheduled, cameraControls, camera>>
       /\ \A dt \in ClockSpacings :
            (/\ emitted'.by = "animate"
             /\ RLe(Rat(1, fps), RAdd(elapsed, dt))
             /\ RLt(RAdd(currentTime, Rat(1, fps)), duration)
             /\ Tick(dt))
            => currentTime' = RAdd(currentTime, Rat(1, fps))]_vars

\* the clock has played one frame at 2 frames per second and, after
\* setFPS(4), one at 4
C30_Witness ==
    /\ emitted.by = "animate"
    /\ isPlaying
    /\ fps = 4
    /\ currentTime = Rat(3, 4)
    /\ duration = R(1)

\* the greatest and the least element of a set of indices, 0 if it is empty
LastOf(S) == IF S = {} THEN 0 ELSE CHOOSE j \in S : \A k \in S : k <= j
FirstOf(S) == IF S = {} THEN 0 ELSE CHOOSE j \in S : \A k \in S : j <= k

\* C31 as stated: in a sample at t, 'before' is the last keyframe of the
\* collection with time <= t and 'after' is the first with time >= t, also
\* when several keyframes have the same time.
C31_LastBeforeFirstAfter ==
    Sampled
    => LET t == currentTime
           n == Len(keyframes)
           s == getSurroundingKeyframes(keyframes, t)
       IN  /\ s.before = LastOf({j \in 1..n : RLe(keyframes[j].time, t)})
           /\ s.after = FirstOf({j \in 1..n : RLe(t, keyframes[j].time)})

\* C31 amended: 'after' is the first keyframe with time >= t; 'before' is
\* that same keyframe if its time is t, and otherwise the last keyframe with
\* time < t.
C31_BeforeUpToAfter ==
    Sampled
    => LET t == currentTime
           n == Len(keyframes)
           s == getSurroundingKeyframes(keyframes, t)
           first == FirstOf({j \in 1..n : RLe(t, keyframes[j].time)})
       IN  /\ s.after = first
           /\ s.before = IF first # 0 /\ keyframes[first].time = t
                         THEN first
                         ELSE LastOf({j \in 1..n : RLt(keyframes[j].time, t)})
           /\ (s.before # 0 /\ s.before = s.after)
                => camera.pose = PoseOf(keyframes[s.before])

\* the time two keyframes share has been sampled, a third keyframe following
C31_Witness ==
    /\ Sampled
    /\ Len(keyframes) = 3
    /\ keyframes[1].time = currentTime
    /\ keyframes[2].time = currentTime
    /\ RLt(currentTime, keyframes[3].time)
    /\ getSurroundingKeyframes(keyframes, currentTime)
         = [before |-> 1, after |-> 1]

\* the names of the events a call of the manager emitted
EventsOf(call) == {call.events[i].event : i \in DOMAIN call.events}

\* the keyframe is an object of the collection
InCollection(ref, kfs) == \E i \in DOMAIN kfs : Ref(kfs[i].id) = ref

\* C32: every call of addKeyframe, updateKeyframe and of a removeKeyframe
\* that removed emits its own event and 'keyframesChanged'; selectKeyframe
\* emits 'keyframeSelected' and nothing else and leaves the collection and
\* its order as they were; removeKeyframe of a keyframe that is not in the
\* collection returns false, emits nothing and leaves the collection and
\* the selection as they were.
C32_ManagerNotifies ==
    [][/\ \A i \in DOMAIN notified' :
            LET call == notified'[i] IN
            /\ call.method = "addKeyframe"
               => {"keyframeAdded", "keyframesChanged"} \subseteq EventsOf(call)
            /\ call.method = "updateKeyframe"
               => {"keyframeUpdated", "keyframesChanged"}
                     \subseteq EventsOf(call)
            /\ (call.method = "removeKeyframe" /\ call.result = "true")
               => {"keyframeRemoved", "keyframesChanged"}
                     \subseteq EventsOf(call)
            /\ call.method = "selectKeyframe"
               => EventsOf(call) = {"keyframeSelected"}
       /\ MouseDownOnKeyframe => keyframes' = keyframes
       /\ ((PanelDeleteKeyframe \/ CallRemoveKeyframe)
              /\ ~InCollection(notified'[1].keyframe, keyframes))
           => /\ notified'[1].result = "false"
              /\ notified'[1].events = <<>>
              /\ keyframes' = keyframes
              /\ selectedKeyframe' = selectedKeyframe]_vars

\* removeKeyframe has been called with a keyframe that had been removed,
\* while two keyframes were in the collection and one of them selected
C32_Witness ==
    /\ Len(notified) = 1
    /\ notified[1].method = "removeKeyframe"
    /\ notified[1].result = "false"
    /\ Len(keyframes) = 2
    /\ selectedKeyframe # NoKeyframe

\* the events the calls emitted, in order
RECURSIVE AllEvents(_)
AllEvents(calls) ==
    IF calls = <<>> THEN <<>>
    ELSE Head(calls).events \o AllEvents(Tail(calls))

\* the data of the 'keyframeSelected' events among the events, in order
SelectionsNotified(calls) ==
    SelectSeq(AllEvents(calls), LAMBDA e : e.event = "keyframeSelected")

\* C40: a step that changes the selected keyframe emits 'keyframeSelected',
\* and the last one it emits carries the new selection.
C40_SelectionChangeNotified ==
    [][selectedKeyframe' # selectedKeyframe
       => /\ SelectionsNotified(notified') # <<>>
          /\ SelectionsNotified(notified')
                [Len(SelectionsNotified(notified'))].data
             = selectedKeyframe']_vars

\* the messages of the errors thrown when the cleared flag is found
CancellationErrors == {"export cancelled", "Cancelled"}

\* C33: an invocation returns with the cancellation error only if the user
\* clicked cancel, or confirmed the close, between its start and its return.
C33_CancelledOnlyByUser ==
    [][\A i \in ExportIds :
        (/\ exports[i].pc \notin {"idle", "done"}
         /\ exports'[i].pc = "done"
         /\ returned' # returned
         /\ returned'.error.msg \in CancellationErrors)
        => exports[i].cancelled]_vars

\* invocation i sends POST /export/finish in this step
SendsFinish(i) == exports'[i].finishSent > exports[i].finishSent

\* C34: a Mode A export sends the finish request only when the uploads of
\* all its frames have been answered, and not when the user has cancelled
\* it before.
C34_FinishOnlyUncancelled ==
    [][\A i \in ExportIds :
        SendsFinish(i)
        => /\ exports[i].mode = "A"
           /\ Len(exports[i].uploads) = exports[i].totalFrames
           /\ exports[i].pc = "wait_gc"
           /\ ~exports[i].cancelled]_vars

\* C36: a Mode B export sets window.location.href to the download at most
\* once.
C36_DownloadAtMostOnce ==
    \A i \in ExportIds : exports[i].mode = "B" => exports[i].downloads <= 1

\* invocation i is a Mode A export that has started and not returned, or
\* whose completion timer is pending
RunningA(i) ==
    exports[i].mode = "A" /\ exports[i].pc \notin {"idle", "done"}

\* every Mode A export that starts reaches a state where it is over, the
\* flag is cleared and #btn-start-export is enabled
C35_EveryExportEnds ==
    \A i \in ExportIds :
        RunningA(i) ~> (/\ exports[i].pc = "done"
                        /\ ~isExporting
                        /\ ~btnStartDisabled)

\* a Mode A export that failed or was cancelled returns with progress 0
C35_ProgressZero ==
    [][\A i \in ExportIds :
        (/\ RunningA(i)
         /\ returned' # returned
         /\ exports'[i].pc # exports[i].pc
         /\ returned'.error # NoError \/ exports[i].cancelled)
        => exportProgress' = R(0)]_vars

\* C35: every Mode A export that starts eventually leaves the flag cleared
\* and the start button enabled, and the progress reported when a failed or
\* cancelled export returns is 0.
C35_EndsClearedAndZero == C35_EveryExportEnds /\ C35_ProgressZero

\* C37: after every step of the clock that changes currentTime, the pose
\* the renderer was given last is the one the clock sampled at the new
\* currentTime.
C37_PoseFollowsTime ==
    [][currentTime' # currentTime
       => /\ camera'.by = Pusher("clock", 0, 0)
          /\ camera'.pose = interpolateAt(keyframes', currentTime')]_vars

\* C38: the camera controls are enabled exactly when the clock is not
\* playing.
C38_ControlsIffNotPlaying == cameraControls = ~isPlaying

\* the clock ran to the end of the timeline and paused itself: the controls
\* are enabled again
C38_Witness ==
    /\ emitted.by = "animate"
    /\ finished = 1
    /\ ~isPlaying
    /\ currentTime = duration
    /\ cameraControls

\* C39: at most one callback of animate() is pending, and none while the
\* clock is not playing; a callback that finds the clock not playing leaves
\* currentTime as it is.
C39_OneCallbackWhilePlaying ==
    [][/\ scheduled' <= 1
       /\ ~isPlaying' => scheduled' = 0
       /\ (emitted'.by = "animate" /\ ~isPlaying)
          => currentTime' = currentTime]_vars

\* pause() between a callback that processed a frame and the next one: the
\* pending callback is cancelled
C39_Witness ==
    /\ emitted.by = "pause"
    /\ emitted.events = <<"pause">>
    /\ currentTime # R(0)
    /\ scheduled = 0
    /\ ~animationFrameId
====
